---- MODULE Spec2Model ----
(***************************************************************************)
(* State-machine model of the syzkaller executor core (executor.h):       *)
(* the program interpreter execute_one, the worker pool (schedule_call,    *)
(* worker_thread / execute_call, handle_completion), the result table,     *)
(* the signal dedup table and the output buffer.                           *)
(*                                                                         *)
(* Machine words.  TLC integers are 32-bit signed, so a uint64_t is kept  *)
(* as four 16-bit limbs <<l3, l2, l1, l0>> (most significant first) and a  *)
(* uint32_t as two 16-bit limbs <<hi, lo>>.  All arithmetic below is       *)
(* exact arithmetic modulo 2^64, respectively modulo 2^32.                 *)
(***************************************************************************)
EXTENDS Integers, Sequences, FiniteSets, TLC

\* 2^16, the limb base of the word representation.
Limb == 256 * 256

(***************************************************************************)
(* uint64_t                                                                *)
(***************************************************************************)
\* (uint64_t)n for a small natural n.
U64(n) == <<0, 0, n \div Limb, n % Limb>>

\* (uint64_t)-n for a small n >= 1, i.e. 2^64 - n.
U64Neg(n) == <<Limb - 1, Limb - 1, Limb - 1, Limb - n>>

\* The word is below 2^30 (so that it is a TLC integer).
IsSmall(w) == w[1] = 0 /\ w[2] = 0 /\ w[3] < 16384

\* The value of a small word.
ToNat(w) == w[3] * Limb + w[4]

\* a < n as uint64_t, for a small natural n.
U64Below(w, n) == IsSmall(w) /\ ToNat(w) < n

\* a + b modulo 2^64.
U64Add(a, b) ==
    LET s4 == a[4] + b[4]
        s3 == a[3] + b[3] + s4 \div Limb
        s2 == a[2] + b[2] + s3 \div Limb
        s1 == a[1] + b[1] + s2 \div Limb
    IN  <<s1 % Limb, s2 % Limb, s3 % Limb, s4 % Limb>>

\* a / d (unsigned 64-bit division) by schoolbook short division.  The
\* divisor must be a word below 2^15; the programs of this model use no other.
U64Div(a, d) ==
    CASE IsSmall(d) /\ d[3] = 0 /\ d[4] > 0 /\ d[4] < 32768 ->
        LET n  == d[4]
            q1 == a[1] \div n
            r1 == a[1] % n
            q2 == (r1 * Limb + a[2]) \div n
            r2 == (r1 * Limb + a[2]) % n
            q3 == (r2 * Limb + a[3]) \div n
            r3 == (r2 * Limb + a[3]) % n
            q4 == (r3 * Limb + a[4]) \div n
        IN  <<q1, q2, q3, q4>>

\* (uint32_t)w : the low 32 bits of a 64-bit word.
Low32(w) == <<w[3], w[4]>>

\* (uint64_t)v for a 32-bit v.
Widen(v) == <<0, 0, v[1], v[2]>>

\* a < b as uint64_t.
U64Less(a, b) ==
    \E k \in 1..4 : a[k] < b[k] /\ \A j \in 1..(k - 1) : a[j] = b[j]

(***************************************************************************)
(* uint32_t                                                                *)
(***************************************************************************)
\* (uint32_t)n for a small natural n.
U32(n) == <<n \div Limb, n % Limb>>

RECURSIVE Xor16(_, _, _)
\* Bitwise exclusive or of the low n bits of a and b.
Xor16(a, b, n) ==
    IF n = 0 THEN 0
    ELSE ((a + b) % 2) + 2 * Xor16(a \div 2, b \div 2, n - 1)

\* a ^ b.
U32Xor(a, b) == <<Xor16(a[1], b[1], 16), Xor16(a[2], b[2], 16)>>

RECURSIVE Pow2(_)
Pow2(k) == IF k = 0 THEN 1 ELSE 2 * Pow2(k - 1)

\* a >> k for 0 < k < 16, and a >> 16.
U32Shr(a, k) ==
    IF k = 16 THEN <<0, a[1]>>
    ELSE <<a[1] \div Pow2(k),
           ((a[1] % Pow2(k)) * Pow2(16 - k)) + (a[2] \div Pow2(k))>>

\* a << k modulo 2^32 for 0 < k < 16.
U32Shl(a, k) ==
    <<((a[1] % Pow2(16 - k)) * Pow2(k)) + (a[2] \div Pow2(16 - k)),
      (a[2] % Pow2(16 - k)) * Pow2(k)>>

\* a + b modulo 2^32.
U32Add(a, b) ==
    LET lo == a[2] + b[2]
        hi == a[1] + b[1] + lo \div Limb
    IN  <<hi % Limb, lo % Limb>>

\* The 32-bit product x * y modulo 2^32 of two 16-bit limbs, as <<hi, lo>>.
Mul16(x, y) ==
    LET t == (x % 256) * y
        u == (x \div 256) * y
    IN  <<((t \div 256 + u) \div 256) % Limb, (t + 256 * (u % 256)) % Limb>>

\* a * b modulo 2^32.
U32Mul(a, b) ==
    LET ll == Mul16(a[2], b[2])
        lh == Mul16(a[2], b[1])
        hl == Mul16(a[1], b[2])
    IN  <<(ll[1] + lh[2] + hl[2]) % Limb, ll[2]>>

\* v % m for a modulus m below 2^15.
U32Mod(v, m) == (((v[1] % m) * (Limb % m)) + (v[2] % m)) % m

(***************************************************************************)
(* Signal hash and dedup table                                             *)
(***************************************************************************)
\* The multiplier 0x27d4eb2d of hash.
HashMul == <<10196, 60205>>

\* The five assignments of hash, in order.
HashStep1(a) == U32Xor(U32Xor(a, U32(61)), U32Shr(a, 16))
HashStep2(a) == U32Add(a, U32Shl(a, 3))
HashStep3(a) == U32Xor(a, U32Shr(a, 4))
HashStep4(a) == U32Mul(a, HashMul)
HashStep5(a) == U32Xor(a, U32Shr(a, 15))

\* static uint32_t hash(uint32_t a)
hash(a) == HashStep5(HashStep4(HashStep3(HashStep2(HashStep1(a)))))

\* const uint32_t dedup_table_size = 8 << 10
dedup_table_size == 8192

\* The number of slots dedup probes before it overwrites.
DedupProbes == 4

\* The table is kept sparse: a function from the positions that hold a
\* non-zero value to that value; every other position holds 0.
TableAt(t, pos) == IF pos \in DOMAIN t THEN t[pos] ELSE U32(0)

TableStore(t, pos, v) ==
    IF v = U32(0)
    THEN [q \in DOMAIN t \ {pos} |-> t[q]]
    ELSE [q \in DOMAIN t \cup {pos} |-> IF q = pos THEN v ELSE t[q]]

\* A probe position that starts one slot late.
ProbePosFromOne(sig, i) == U32Mod(U32Add(sig, U32(i + 1)), dedup_table_size)

\* The i-th probe position of sig: (sig + i) % dedup_table_size.
ProbePos(sig, i) == U32Mod(U32Add(sig, U32(i)), dedup_table_size)

RECURSIVE DedupFromNoStore(_, _, _)
\* A dedup that forgets the store into the zero slot it found.
DedupFromNoStore(t, sig, i) ==
    IF i = DedupProbes
    THEN [ret |-> FALSE, table |-> TableStore(t, U32Mod(sig, dedup_table_size), sig)]
    ELSE IF TableAt(t, ProbePos(sig, i)) = sig THEN [ret |-> TRUE, table |-> t]
         ELSE IF TableAt(t, ProbePos(sig, i)) = U32(0)
              THEN [ret |-> FALSE, table |-> t]
              ELSE DedupFromNoStore(t, sig, i + 1)

RECURSIVE DedupFrom(_, _, _)
\* The loop of dedup from probe i on; after the loop, the lossy overwrite.
DedupFrom(t, sig, i) ==
    IF i = DedupProbes
    THEN [ret |-> FALSE, table |-> TableStore(t, U32Mod(sig, dedup_table_size), sig)]
    ELSE LET pos == ProbePos(sig, i) IN
         IF TableAt(t, pos) = sig THEN [ret |-> TRUE, table |-> t]
         ELSE IF TableAt(t, pos) = U32(0)
              THEN [ret |-> FALSE, table |-> TableStore(t, pos, sig)]
              ELSE DedupFrom(t, sig, i + 1)

\* static bool dedup(uint32_t sig): the answer and the table afterwards.
dedup(t, sig) == DedupFrom(t, sig, 0)

(***************************************************************************)
(* Program constants                                                       *)
(***************************************************************************)
\* const int kMaxInput = 2 << 20 (bytes); the input is read in 8-byte words.
kMaxInputWords == (2 * 1024 * 1024) \div 8
\* const int kCoverSize = 64 << 10
kCoverSize == 64 * 1024
kMaxArgs == 9
kMaxThreads == 16
kMaxCommands == 1000

instr_eof == U64Neg(1)
instr_copyin == U64Neg(2)
instr_copyout == U64Neg(3)

arg_const == U64(0)
arg_result == U64(1)
arg_data == U64(2)
arg_csum == U64(3)

no_copyout == U64Neg(1)

\* We use the default value instead of results of failed syscalls.
default_value == U64Neg(1)

\* (long)-1, the result of a failed call.
MinusOne == U64Neg(1)

\* Comparison type bits.
KCOV_CMP_CONST == 1
KCOV_CMP_SIZE1 == 0
KCOV_CMP_SIZE2 == 2
KCOV_CMP_SIZE4 == 4
KCOV_CMP_SIZE8 == 6
KCOV_CMP_SIZE_MASK == 6

\* The exec_flags bits of execute_req, as read by receive_execute.
ExecCollectCover == 0
ExecDedupCover == 1
ExecInjectFault == 2
ExecCollectComps == 3
ExecThreaded == 4
ExecCollide == 5

\* exec_flags & (1 << bit)
FlagBit(exec_flags, bit) == (exec_flags \div Pow2(bit)) % 2 = 1

(***************************************************************************)
(* The collaborators the core consumes: the syscall table, the kernel      *)
(* coverage facility and guest memory.  The table has three calls.         *)
(***************************************************************************)
\* syscalls[0]: returns at once, with a value or with an error.
SysValue == 0
\* syscalls[1]: stores the 4 bytes of StoreWord at the address args[0].
SysStore == 1
\* syscalls[2]: blocks and never returns (a pause).
SysPause == 2
\* The size of the syscall table.
syscall_count == 3

\* The guest data area: MemSize bytes from address 0x20000000 on.  Every
\* other address faults.
MemBase == <<0, 0, 8192, 0>>
MemSize == 8

\* The value SysStore writes: 0xDEADBEEF.
StoreWord == <<57005, 48879>>

\* Kernel PCs (64-bit) the coverage facility reports.
PcA == <<65535, 65535, 33024, 16>>
PcB == <<65535, 65535, 33024, 32>>
PcC == <<65535, 65535, 33024, 8208>>

\* errno values of failed calls.
EFAULT == 14
EINVAL == 22

(***************************************************************************)
(* Guest memory: copyin and copyout                                        *)
(***************************************************************************)
\* Byte k (0 = least significant) of a 64-bit word.
ByteOf(w, k) ==
    LET limb == w[4 - (k \div 2)]
    IN  IF k % 2 = 0 THEN limb % 256 ELSE limb \div 256

\* Bit j (0 = least significant) of a 64-bit word.
BitOf(w, j) == (w[4 - (j \div 16)] \div Pow2(j % 16)) % 2

\* The 64-bit word whose little-endian bytes are bs (at most 8 of them).
FromBytes(bs) ==
    LET b(k) == IF k <= Len(bs) THEN bs[k] ELSE 0
    IN  <<b(7) + 256 * b(8), b(5) + 256 * b(6), b(3) + 256 * b(4), b(1) + 256 * b(2)>>

\* An access of size bytes at addr lies in the guest data area; any other
\* access faults and is swallowed by NONFAILING.
Mapped(addr, size) ==
    /\ addr[1] = MemBase[1] /\ addr[2] = MemBase[2] /\ addr[3] = MemBase[3]
    /\ addr[4] + size <= MemSize

\* The access sizes copyin and copyout accept.
AccessSizes == {1, 2, 4, 8}

\* uint64_t copyout(char* addr, uint64_t size): the value read, or the fatal
\* exit on a bad size.
copyout(m, addr, size) ==
    IF ~(IsSmall(size) /\ ToNat(size) \in AccessSizes)
    THEN [val |-> default_value, fatal |-> "copyout: bad argument size"]
    ELSE LET n == ToNat(size) IN
         IF Mapped(addr, n)
         THEN [val |-> FromBytes([k \in 1..n |-> m[addr[4] + k - 1]]), fatal |-> ""]
         ELSE [val |-> default_value, fatal |-> ""]

\* STORE_BY_BITMASK(type, addr, val, bf_off, bf_len) on the size bytes old
\* (little-endian): with bf_len = 0 the low size bytes of val; otherwise old
\* with the bits [bf_off, bf_off + bf_len) replaced by the low bf_len bits of val.
StoreByBitmask(old, val, n, bf_off, bf_len) ==
    LET oldw == FromBytes(old)
        bit(j) == IF bf_len = 0 THEN BitOf(val, j)
                  ELSE IF j >= bf_off /\ j < bf_off + bf_len
                       THEN BitOf(val, j - bf_off)
                       ELSE BitOf(oldw, j)
        byte(k) == bit(8 * k) + 2 * bit(8 * k + 1) + 4 * bit(8 * k + 2)
                   + 8 * bit(8 * k + 3) + 16 * bit(8 * k + 4) + 32 * bit(8 * k + 5)
                   + 64 * bit(8 * k + 6) + 128 * bit(8 * k + 7)
    IN  [k \in 1..n |-> byte(k - 1)]

\* void copyin(char* addr, uint64_t val, uint64_t size, uint64_t bf_off,
\* uint64_t bf_len): the memory afterwards, or the fatal exit on a bad size.
copyin(m, addr, val, size, bf_off, bf_len) ==
    IF ~(IsSmall(size) /\ ToNat(size) \in AccessSizes)
    THEN [mem |-> m, fatal |-> "copyin: bad argument size"]
    ELSE LET n == ToNat(size) IN
         IF Mapped(addr, n)
         THEN LET new == StoreByBitmask([k \in 1..n |-> m[addr[4] + k - 1]], val, n,
                                        ToNat(bf_off), ToNat(bf_len))
              IN  [mem |-> [a \in DOMAIN m |->
                              IF a >= addr[4] /\ a < addr[4] + n
                              THEN new[a - addr[4] + 1] ELSE m[a]],
                   fatal |-> ""]
         ELSE [mem |-> m, fatal |-> ""]

\* memcpy(addr, input_pos, size) under NONFAILING, for the data of a copyin:
\* the bytes are those of the words that follow in the input.
CopyData(m, addr, words, n) ==
    IF Mapped(addr, n)
    THEN [a \in DOMAIN m |->
            IF a >= addr[4] /\ a < addr[4] + n
            THEN ByteOf(words[((a - addr[4]) \div 8) + 1], (a - addr[4]) % 8)
            ELSE m[a]]
    ELSE m

(***************************************************************************)
(* The encoded program: the instructions as the parent fuzzer writes them  *)
(***************************************************************************)
\* A constant argument (type, size, value, bf_off, bf_len).
ArgConst(v) == <<arg_const, U64(8), v, U64(0), U64(0)>>
\* A back-reference argument (type, size, idx, op_div, op_add).
ArgResult(idx, div, add) == <<arg_result, U64(8), idx, div, add>>

RECURSIVE Flatten(_)
Flatten(ss) == IF ss = <<>> THEN <<>> ELSE Head(ss) \o Flatten(Tail(ss))

\* call_num, copyout_index, num_args, then the arguments.
Call(num, copyout_index, args) ==
    <<U64(num), copyout_index, U64(Len(args))>> \o Flatten(args)
\* instr_copyout, index, addr, size.
Copyout(index, addr, size) == <<instr_copyout, U64(index), addr, U64(size)>>
\* instr_copyin, addr, type, size, then the argument's payload.
CopyinConst(addr, size, v, bf_off, bf_len) ==
    <<instr_copyin, addr, arg_const, U64(size), v, U64(bf_off), U64(bf_len)>>
CopyinResult(addr, size, idx, div, add) ==
    <<instr_copyin, addr, arg_result, U64(size), idx, div, add>>
CopyinData(addr, size, words) ==
    <<instr_copyin, addr, arg_data, U64(size)>> \o words
\* An inet checksum over chunks (kind, value, size), stored at addr.
CopyinCsum(addr, chunks) ==
    <<instr_copyin, addr, arg_csum, U64(2), U64(0), U64(Len(chunks))>> \o Flatten(chunks)
Eof == <<instr_eof>>

(***************************************************************************)
(* State                                                                   *)
(***************************************************************************)
VARIABLES
    pc,           \* where the main thread is
    req,          \* the execute_req header receive_execute read: exec_flags, fault_call
    flags,        \* flag_collect_cover, ..., flag_fault_call as set by receive_execute
    input_data,   \* the program, a sequence of 64-bit words
    input_pos,    \* execute_one's cursor (a word offset into input_data)
    call_index,   \* execute_one's call_index
    th,           \* execute_one's th: the slot of the call scheduled last
    collide,      \* the internal collide flag
    mem,          \* guest memory
    in_call,      \* the slots whose worker is inside execute_syscall
    passes,       \* history: how often execute_one started at retry
    threads,      \* thread_t threads[kMaxThreads], sparse: the created slots
    results,      \* res_t results[kMaxCommands], sparse: the executed entries
    dedup_table,  \* uint32_t dedup_table[dedup_table_size], sparse
    output_data,  \* the output buffer, a sequence of 32-bit words
    completed,    \* uint32_t completed
    running,      \* int running
    fatal,        \* the message of the fatal exit, "" while the process lives
    hist          \* history: the schedule_call and handle_completion calls so far

vars == <<pc, req, flags, input_data, input_pos, call_index, th, collide, mem, in_call,
          passes, threads, results, dedup_table, output_data, completed,
          running, fatal, hist>>

flag_collect_cover == flags.collect_cover
flag_dedup_cover == flags.dedup_cover
flag_threaded == flags.threaded
flag_collide == flags.collide
flag_collect_comps == flags.collect_comps
flag_inject_fault == flags.inject_fault
flag_fault_call == flags.fault_call

Slots == 0..(kMaxThreads - 1)

\* The globals that schedule_call and handle_completion read and write.
Globals ==
    [threads |-> threads, results |-> results, dedup_table |-> dedup_table,
     output_data |-> output_data, completed |-> completed, running |-> running,
     fatal |-> fatal, hist |-> hist]

\* fail(msg) / exitf(msg): the process exits.
Fail(g, msg) == [g EXCEPT !.fatal = msg]

\* A zero-initialised thread_t.
ZeroThread ==
    [created |-> FALSE, ready |-> FALSE, done |-> FALSE, handled |-> FALSE,
     copyout_pos |-> 0, copyout_index |-> U64(0), call_index |-> 0, call_num |-> 0,
     num_args |-> 0, args |-> [k \in 1..kMaxArgs |-> U64(0)], res |-> U64(0),
     reserrno |-> 0, cover_size |-> 0, fault_injected |-> FALSE, cover_data |-> <<>>]

\* threads[i]: the pool is kept sparse, a function from the created slots to
\* their thread_t; every other slot is still zero.
ThreadAt(ts, i) == IF i \in DOMAIN ts THEN ts[i] ELSE ZeroThread

(***************************************************************************)
(* The input stream                                                        *)
(***************************************************************************)
\* read_input fails when the cursor is at or past input_data + kMaxInput.
InputOverflow(pos) == pos >= kMaxInputWords

\* *input_pos: the word at offset pos; the buffer is zero past the program.
read_input(pos) == IF pos < Len(input_data) THEN input_data[pos + 1] ELSE U64(0)

\* A read_result that adds op_add before it divides.
read_result_AddFirst(res, pos) ==
    IF InputOverflow(pos + 2)
    THEN [val |-> default_value, pos |-> pos, fatal |-> "input command overflows input"]
    ELSE IF ~U64Below(read_input(pos), kMaxCommands)
    THEN [val |-> default_value, pos |-> pos + 3, fatal |-> "command refers to bad result"]
    ELSE IF ToNat(read_input(pos)) \in DOMAIN res
    THEN [val |-> IF read_input(pos + 1) # U64(0)
                  THEN U64Div(U64Add(res[ToNat(read_input(pos))], read_input(pos + 2)),
                              read_input(pos + 1))
                  ELSE U64Add(res[ToNat(read_input(pos))], read_input(pos + 2)),
          pos |-> pos + 3, fatal |-> ""]
    ELSE [val |-> default_value, pos |-> pos + 3, fatal |-> ""]

\* uint64_t read_result(uint64_t** input_posp): the argument, the cursor
\* afterwards and the fatal exit if any.
read_result(res, pos) ==
    LET idx == read_input(pos)
        op_div == read_input(pos + 1)
        op_add == read_input(pos + 2)
    IN  IF InputOverflow(pos + 2)
        THEN [val |-> default_value, pos |-> pos, fatal |-> "input command overflows input"]
        ELSE IF ~U64Below(idx, kMaxCommands)
        THEN [val |-> default_value, pos |-> pos + 3, fatal |-> "command refers to bad result"]
        ELSE IF ToNat(idx) \in DOMAIN res
        THEN LET arg == res[ToNat(idx)]
                 quot == IF op_div # U64(0) THEN U64Div(arg, op_div) ELSE arg
             IN  [val |-> U64Add(quot, op_add), pos |-> pos + 3, fatal |-> ""]
        ELSE [val |-> default_value, pos |-> pos + 3, fatal |-> ""]

\* uint64_t read_arg(uint64_t** input_posp)
read_arg(res, pos) ==
    LET typ == read_input(pos) IN
    IF InputOverflow(pos + 1)
    THEN [val |-> U64(0), pos |-> pos, fatal |-> "input command overflows input"]
    ELSE IF typ = arg_const
    THEN IF InputOverflow(pos + 4)
         THEN [val |-> U64(0), pos |-> pos, fatal |-> "input command overflows input"]
         ELSE [val |-> read_input(pos + 2), pos |-> pos + 5, fatal |-> ""]
    ELSE IF typ = arg_result
    THEN read_result(res, pos + 2)
    ELSE [val |-> U64(0), pos |-> pos + 2, fatal |-> "bad argument type"]

RECURSIVE ReadArgs(_, _, _, _)
\* for (i = 0; i < num_args; i++) args[i] = read_arg(&input_pos), from
\* argument i on: the arguments read, the cursor and the fatal exit if any.
ReadArgs(res, pos, i, num_args) ==
    IF i = num_args THEN [args |-> <<>>, pos |-> pos, fatal |-> ""]
    ELSE LET a == read_arg(res, pos) IN
         IF a.fatal # "" THEN [args |-> <<>>, pos |-> a.pos, fatal |-> a.fatal]
         ELSE LET rest == ReadArgs(res, a.pos, i + 1, num_args)
              IN  [args |-> <<a.val>> \o rest.args, pos |-> rest.pos, fatal |-> rest.fatal]

(***************************************************************************)
(* The output buffer                                                       *)
(***************************************************************************)
\* uint32_t* write_output(uint32_t v): appends v.
write_output(out, v) == Append(out, v)

\* void write_completed(uint32_t completed): header word 0.
write_completed(out, n) == [out EXCEPT ![1] = U32(n)]

(***************************************************************************)
(* handle_completion                                                       *)
(***************************************************************************)
\* results[idx].executed = true; results[idx].val = val
SetResult(res, idx, val) ==
    [k \in DOMAIN res \cup {idx} |-> IF k = idx THEN val ELSE res[k]]

\* A copyout loop that stops after the first COPYOUT record.
CopyoutLoopOnce(res, pos) ==
    IF InputOverflow(pos)
    THEN [results |-> res, pos |-> pos, fatal |-> "input command overflows input"]
    ELSE IF read_input(pos) = instr_copyout
    THEN IF InputOverflow(pos + 3)
         THEN [results |-> res, pos |-> pos, fatal |-> "input command overflows input"]
         ELSE LET index == read_input(pos + 1)
                  c == copyout(mem, read_input(pos + 2), read_input(pos + 3))
              IN  IF c.fatal # ""
                  THEN [results |-> res, pos |-> pos + 4, fatal |-> c.fatal]
                  ELSE IF ~U64Below(index, kMaxCommands)
                  THEN [results |-> res, pos |-> pos + 4,
                        fatal |-> "result idx overflows kMaxCommands"]
                  ELSE [results |-> SetResult(res, ToNat(index), c.val), pos |-> pos + 4,
                        fatal |-> ""]
    ELSE [results |-> res, pos |-> pos + 1, fatal |-> ""]

RECURSIVE CopyoutLoop(_, _)
\* The loop of handle_completion over the COPYOUT records at the slot's
\* cursor: the result table and the cursor afterwards, the fatal exit if any.
CopyoutLoop(res, pos) ==
    IF InputOverflow(pos)
    THEN [results |-> res, pos |-> pos, fatal |-> "input command overflows input"]
    ELSE IF read_input(pos) = instr_copyout
    THEN IF InputOverflow(pos + 3)
         THEN [results |-> res, pos |-> pos, fatal |-> "input command overflows input"]
         ELSE LET index == read_input(pos + 1)
                  c == copyout(mem, read_input(pos + 2), read_input(pos + 3))
              IN  IF c.fatal # ""
                  THEN [results |-> res, pos |-> pos + 4, fatal |-> c.fatal]
                  ELSE IF ~U64Below(index, kMaxCommands)
                  THEN [results |-> res, pos |-> pos + 4,
                        fatal |-> "result idx overflows kMaxCommands"]
                  ELSE CopyoutLoop(SetResult(res, ToNat(index), c.val), pos + 4)
    ELSE [results |-> res, pos |-> pos + 1, fatal |-> ""]

RECURSIVE SignalLoopPrevOfSig(_, _, _, _, _, _, _)
\* A signal loop that hashes the signal, not the PC, into prev.
SignalLoopPrevOfSig(tab, out, cover, i, n, prev, nsig) ==
    IF i > n THEN [table |-> tab, out |-> out, nsig |-> nsig]
    ELSE LET sig == U32Xor(Low32(cover[i]), prev)
             d == dedup(tab, sig)
         IN  IF d.ret
             THEN SignalLoopPrevOfSig(d.table, out, cover, i + 1, n, hash(sig), nsig)
             ELSE SignalLoopPrevOfSig(d.table, write_output(out, sig), cover, i + 1, n,
                                      hash(sig), nsig + 1)

RECURSIVE SignalLoop(_, _, _, _, _, _, _)
\* The signal loop from entry i (1-based) on: for each PC, sig = pc ^ prev,
\* prev = hash(pc), and sig is written unless dedup knows it.
SignalLoop(tab, out, cover, i, n, prev, nsig) ==
    IF i > n THEN [table |-> tab, out |-> out, nsig |-> nsig]
    ELSE LET cpc == Low32(cover[i])
             sig == U32Xor(cpc, prev)
             d == dedup(tab, sig)
         IN  IF d.ret
             THEN SignalLoop(d.table, out, cover, i + 1, n, hash(cpc), nsig)
             ELSE SignalLoop(d.table, write_output(out, sig), cover, i + 1, n,
                             hash(cpc), nsig + 1)

RECURSIVE InsertU64(_, _)
InsertU64(sorted, x) ==
    IF sorted = <<>> THEN <<x>>
    ELSE IF U64Less(x, Head(sorted)) THEN <<x>> \o sorted
    ELSE <<Head(sorted)>> \o InsertU64(Tail(sorted), x)

RECURSIVE SortU64(_)
\* std::sort(start, end) on 64-bit words.
SortU64(seq) ==
    IF seq = <<>> THEN <<>> ELSE InsertU64(SortU64(Tail(seq)), Head(seq))

RECURSIVE UniqueU64(_)
\* std::unique(start, end): the words up to the new end.
UniqueU64(seq) ==
    IF Len(seq) < 2 THEN seq
    ELSE IF seq[1] = seq[2] THEN UniqueU64(Tail(seq))
    ELSE <<seq[1]>> \o UniqueU64(Tail(seq))

RECURSIVE WriteWords(_, _)
\* write_output((uint32_t)cover_data[i]) for every word of seq.
WriteWords(out, seq) ==
    IF seq = <<>> THEN out
    ELSE WriteWords(write_output(out, Low32(Head(seq))), Tail(seq))

\* kcov_comparison_t::operator<
CompLess(a, b) ==
    IF a.type # b.type THEN a.type < b.type
    ELSE IF a.arg1 # b.arg1 THEN U64Less(a.arg1, b.arg1)
    ELSE U64Less(a.arg2, b.arg2)

\* kcov_comparison_t::operator==
CompEq(a, b) == a.type = b.type /\ a.arg1 = b.arg1 /\ a.arg2 = b.arg2

RECURSIVE InsertComp(_, _)
InsertComp(sorted, x) ==
    IF sorted = <<>> THEN <<x>>
    ELSE IF CompLess(x, Head(sorted)) THEN <<x>> \o sorted
    ELSE <<Head(sorted)>> \o InsertComp(Tail(sorted), x)

RECURSIVE SortComps(_)
\* std::sort(start, end) on comparison records.  Records that compare equal
\* differ in pc only, which is never written out.
SortComps(seq) ==
    IF seq = <<>> THEN <<>> ELSE InsertComp(SortComps(Tail(seq)), Head(seq))

RECURSIVE UniqueComps(_)
UniqueComps(seq) ==
    IF Len(seq) < 2 THEN seq
    ELSE IF CompEq(seq[1], seq[2]) THEN UniqueComps(<<seq[1]>> \o Tail(Tail(seq)))
    ELSE <<seq[1]>> \o UniqueComps(Tail(seq))

\* type & KCOV_CMP_SIZE_MASK
CompSize(c) == ((c.type \div 2) % 4) * 2

\* (uint64_t)(int64_t)(intN_t)arg for the size class of the record.
SignExtend(size, arg) ==
    IF size = KCOV_CMP_SIZE1
    THEN IF arg[4] % 256 >= 128
         THEN <<Limb - 1, Limb - 1, Limb - 1, (Limb - 256) + (arg[4] % 256)>>
         ELSE <<0, 0, 0, arg[4] % 256>>
    ELSE IF size = KCOV_CMP_SIZE2
    THEN IF arg[4] >= Limb \div 2
         THEN <<Limb - 1, Limb - 1, Limb - 1, arg[4]>>
         ELSE <<0, 0, 0, arg[4]>>
    ELSE IF size = KCOV_CMP_SIZE4
    THEN IF arg[3] >= Limb \div 2
         THEN <<Limb - 1, Limb - 1, arg[3], arg[4]>>
         ELSE <<0, 0, arg[3], arg[4]>>
    ELSE arg

\* bool kcov_comparison_t::ignore(): a constant comparison of zero with zero.
ignore(c) == c.type % 2 = KCOV_CMP_CONST /\ c.arg1 = U64(0) /\ c.arg2 = U64(0)

\* The record after kcov_comparison_t::write(), which sign-extends in place.
CompExtended(c) ==
    [c EXCEPT !.arg1 = SignExtend(CompSize(c), c.arg1),
              !.arg2 = SignExtend(CompSize(c), c.arg2)]

\* void kcov_comparison_t::write(): the output afterwards.
CompWrite(out, c) ==
    LET e == CompExtended(c)
        o1 == write_output(out, U32(c.type))
    IN  IF CompSize(c) # KCOV_CMP_SIZE8
        THEN write_output(write_output(o1, Low32(e.arg1)), Low32(e.arg2))
        ELSE write_output(write_output(write_output(write_output(o1,
                 <<e.arg1[3], e.arg1[4]>>), <<e.arg1[1], e.arg1[2]>>),
                 <<e.arg2[3], e.arg2[4]>>), <<e.arg2[1], e.arg2[2]>>)

RECURSIVE CompsLoop(_, _, _)
\* The loop over the sorted, uniqued comparisons: the output, the records as
\* write() leaves them and the count written.
CompsLoop(out, comps, n) ==
    IF comps = <<>> THEN [out |-> out, comps |-> <<>>, n |-> n]
    ELSE LET c == Head(comps) IN
         IF ignore(c)
         THEN LET r == CompsLoop(out, Tail(comps), n)
              IN  [r EXCEPT !.comps = <<c>> \o @]
         ELSE LET r == CompsLoop(CompWrite(out, c), Tail(comps), n + 1)
              IN  [r EXCEPT !.comps = <<CompExtended(c)>> \o @]

\* The words of a comparison record in the coverage buffer.
CompWords == 4

\* A handle_completion that puts the fixed words of the new record before
\* the records already in the output.
RecordHeadFirst(out, t) ==
    <<out[1], U32(t.call_index), U32(t.call_num),
      U32(IF t.res # MinusOne THEN 0 ELSE t.reserrno),
      U32(IF t.fault_injected THEN 1 ELSE 0), U32(0), U32(0), U32(0)>> \o Tail(out)

\* The fixed words of an output record for slot record t: call_index,
\* call_num, reserrno, fault_injected and the three counts, zero for now.
RecordHead(out, t) ==
    LET reserrno == IF t.res # MinusOne THEN 0 ELSE t.reserrno
    IN  write_output(write_output(write_output(write_output(write_output(
            write_output(write_output(out, U32(t.call_index)),
            U32(t.call_num)), U32(reserrno)),
            U32(IF t.fault_injected THEN 1 ELSE 0)), U32(0)), U32(0)), U32(0))

\* A handle_completion that writes the counter to the header before
\* completed++.
FinishRecordStale(g, out, pos, nsig, cover_size, comps_size) ==
    [g EXCEPT !.output_data =
                  write_completed([out EXCEPT ![pos + 6] = U32(cover_size),
                                              ![pos + 7] = U32(comps_size),
                                              ![pos + 5] = U32(nsig)],
                                  g.completed),
              !.completed = g.completed + 1]

\* The end of the record that starts after word pos of the output: the counts
\* are filled in, then completed++ and write_completed(completed).
FinishRecord(g, out, pos, nsig, cover_size, comps_size) ==
    LET signal_count_pos == pos + 5
        cover_count_pos == pos + 6
        comps_count_pos == pos + 7
        patched == [out EXCEPT ![cover_count_pos] = U32(cover_size),
                               ![comps_count_pos] = U32(comps_size),
                               ![signal_count_pos] = U32(nsig)]
    IN  [g EXCEPT !.output_data = write_completed(patched, g.completed + 1),
                  !.completed = g.completed + 1]

\* The record of slot i when comparisons are collected; r is what the loop
\* over the comparisons left.
CompsRecord(g, i, pos, r) ==
    FinishRecord([g EXCEPT !.threads[i].cover_data = r.comps], r.out, pos, 0, 0, r.n)

\* The record of slot i with the coverage PCs pcs after the signals sl.
CoverRecord(g, i, pos, sl, pcs) ==
    FinishRecord([g EXCEPT !.dedup_table = sl.table, !.threads[i].cover_data = pcs],
                 WriteWords(sl.out, pcs), pos, sl.nsig, Len(pcs), 0)

\* The record of slot i after the signal loop left sl: the PCs follow when
\* flag_collect_cover is set, sorted and uniqued under flag_dedup_cover.
SignalRecord(g, i, pos, sl) ==
    LET t == g.threads[i] IN
    IF flag_collect_cover
    THEN CoverRecord(g, i, pos, sl,
                     IF flag_dedup_cover
                     THEN UniqueU64(SortU64(SubSeq(t.cover_data, 1, t.cover_size)))
                     ELSE SubSeq(t.cover_data, 1, t.cover_size))
    ELSE FinishRecord([g EXCEPT !.dedup_table = sl.table], sl.out, pos, sl.nsig, 0, 0)

\* The part of handle_completion under if (!collide): the output record of
\* slot i.
WriteRecord(g, i) ==
    LET t == g.threads[i]
        pos == Len(g.output_data)
    IN  IF flag_collect_comps
        THEN IF t.cover_size * CompWords >= kCoverSize
             THEN Fail(g, "too many comparisons")
             ELSE CompsRecord(g, i, pos,
                      CompsLoop(RecordHead(g.output_data, t),
                                UniqueComps(SortComps(SubSeq(t.cover_data, 1, t.cover_size))),
                                0))
        ELSE SignalRecord(g, i, pos,
                 SignalLoop(g.dedup_table, RecordHead(g.output_data, t), t.cover_data, 1,
                            t.cover_size, U32(0), 0))

\* A handle_completion that forgets th->handled = true.
MarkHandledLost(g, i) ==
    [g EXCEPT !.running = @ - 1,
              !.hist = Append(@, [ev |-> "done", slot |-> i,
                                  call_index |-> g.threads[i].call_index,
                                  collide |-> collide])]

\* A handle_completion that forgets running--.
MarkHandledNoDecrement(g, i) ==
    [g EXCEPT !.threads[i].handled = TRUE,
              !.hist = Append(@, [ev |-> "done", slot |-> i,
                                  call_index |-> g.threads[i].call_index,
                                  collide |-> collide])]

\* The end of handle_completion: th->handled = true; running--.  The history
\* records the completion and the collide flag it was handled under.
MarkHandled(g, i) ==
    [g EXCEPT !.threads[i].handled = TRUE,
              !.running = @ - 1,
              !.hist = Append(@, [ev |-> "done", slot |-> i,
                                  call_index |-> g.threads[i].call_index,
                                  collide |-> collide])]

\* The end of handle_completion given the globals g2 after the record.
AfterRecord(g, i, g2) == IF g2.fatal # "" THEN Fail(g, g2.fatal) ELSE MarkHandled(g2, i)

\* handle_completion from if (!collide) on; co is what the copyout loop left.
AfterCopyouts(g, i, co) ==
    LET g1 == [g EXCEPT !.results = co.results, !.threads[i].copyout_pos = co.pos]
    IN  IF co.fatal # "" THEN Fail(g, co.fatal)
        ELSE AfterRecord(g, i, IF ~collide THEN WriteRecord(g1, i) ELSE g1)

\* A handle_completion that records the result of a failed call too.
HandleCompletionStoreOnError(g, i) ==
    LET t == ThreadAt(g.threads, i)
        ok == t.res # MinusOne
        store == t.copyout_index # no_copyout
    IN  IF t.ready \/ ~t.done \/ t.handled
        THEN Fail(g, "bad thread state in completion")
        ELSE IF store /\ ~U64Below(t.copyout_index, kMaxCommands)
        THEN Fail(g, "result idx overflows kMaxCommands")
        ELSE AfterCopyouts(g, i,
                 IF ok
                 THEN CopyoutLoop(IF store
                                  THEN SetResult(g.results, ToNat(t.copyout_index), t.res)
                                  ELSE g.results,
                                  t.copyout_pos)
                 ELSE [results |-> IF store
                                   THEN SetResult(g.results, ToNat(t.copyout_index), t.res)
                                   ELSE g.results,
                       pos |-> t.copyout_pos, fatal |-> ""])

\* void handle_completion(thread_t* th), for slot i.
handle_completion(g, i) ==
    LET t == ThreadAt(g.threads, i)
        ok == t.res # MinusOne
        store == ok /\ t.copyout_index # no_copyout
    IN  IF t.ready \/ ~t.done \/ t.handled
        THEN Fail(g, "bad thread state in completion")
        ELSE IF store /\ ~U64Below(t.copyout_index, kMaxCommands)
        THEN Fail(g, "result idx overflows kMaxCommands")
        ELSE AfterCopyouts(g, i,
                 IF ok
                 THEN CopyoutLoop(IF store
                                  THEN SetResult(g.results, ToNat(t.copyout_index), t.res)
                                  ELSE g.results,
                                  t.copyout_pos)
                 ELSE [results |-> g.results, pos |-> t.copyout_pos, fatal |-> ""])

(***************************************************************************)
(* thread_create, schedule_call, execute_call                              *)
(***************************************************************************)
\* A thread_create that forgets th->handled = true.
thread_create_unhandled(g, i) ==
    [g EXCEPT !.threads =
        [k \in DOMAIN g.threads \cup {i} |->
            IF k = i
            THEN [ThreadAt(g.threads, i) EXCEPT !.created = TRUE,
                                                !.ready = FALSE, !.done = TRUE]
            ELSE g.threads[k]]]

\* void thread_create(thread_t* th, int id).  In threaded mode this starts
\* the slot's worker, which waits on ready.
thread_create(g, i) ==
    [g EXCEPT !.threads =
        [k \in DOMAIN g.threads \cup {i} |->
            IF k = i
            THEN [ThreadAt(g.threads, i) EXCEPT !.created = TRUE, !.handled = TRUE,
                                                !.ready = FALSE, !.done = TRUE]
            ELSE g.threads[k]]]

RECURSIVE ScanFromCreated(_, _)
\* A scan that stops at the first created slot, done or not.
ScanFromCreated(g, i) ==
    IF i = kMaxThreads THEN [g |-> g, i |-> i]
    ELSE LET g1 == IF ~ThreadAt(g.threads, i).created THEN thread_create(g, i) ELSE g IN
         IF g1.threads[i].created
         THEN [g |-> IF g1.threads[i].done /\ ~g1.threads[i].handled
                     THEN handle_completion(g1, i) ELSE g1,
               i |-> i]
         ELSE ScanFromCreated(g1, i + 1)

RECURSIVE ScanFromHandled(_, _)
\* A scan that passes over a slot whose completion is not handled yet.
ScanFromHandled(g, i) ==
    IF i = kMaxThreads THEN [g |-> g, i |-> i]
    ELSE LET g1 == IF ~ThreadAt(g.threads, i).created THEN thread_create(g, i) ELSE g IN
         IF g1.threads[i].done /\ g1.threads[i].handled
         THEN [g |-> g1, i |-> i]
         ELSE ScanFromHandled(g1, i + 1)

RECURSIVE ScanFrom(_, _)
\* The scan of schedule_call from slot i on: the globals after it and the
\* slot it stopped at (kMaxThreads: none).
ScanFrom(g, i) ==
    IF i = kMaxThreads THEN [g |-> g, i |-> i]
    ELSE LET g1 == IF ~ThreadAt(g.threads, i).created THEN thread_create(g, i) ELSE g IN
         IF g1.threads[i].done
         THEN [g |-> IF ~g1.threads[i].handled THEN handle_completion(g1, i) ELSE g1,
               i |-> i]
         ELSE ScanFrom(g1, i + 1)

\* A schedule_call that forgets running++.
ArmSlotNotCounted(sc, cidx, cnum, copyout_index, num_args, args, pos) ==
    LET i == sc.i IN
    IF sc.g.fatal # "" THEN sc
    ELSE IF i = kMaxThreads THEN [g |-> Fail(sc.g, "out of threads"), i |-> i]
    ELSE IF sc.g.threads[i].ready \/ ~sc.g.threads[i].done \/ ~sc.g.threads[i].handled
    THEN [g |-> Fail(sc.g, "bad thread state in schedule"), i |-> i]
    ELSE [g |-> [sc.g EXCEPT
                    !.threads[i].copyout_pos = pos,
                    !.threads[i].copyout_index = copyout_index,
                    !.threads[i].done = FALSE,
                    !.threads[i].handled = FALSE,
                    !.threads[i].call_index = cidx,
                    !.threads[i].call_num = cnum,
                    !.threads[i].num_args = num_args,
                    !.threads[i].args = args,
                    !.threads[i].ready = TRUE,
                    !.hist = Append(@, [ev |-> "sched", slot |-> i,
                                        call_index |-> cidx,
                                        collide |-> collide])],
          i |-> i]

\* schedule_call after the scan, which left sc: the checks, then the slot is
\* armed with the call.
ArmSlot(sc, cidx, cnum, copyout_index, num_args, args, pos) ==
    LET i == sc.i IN
    IF sc.g.fatal # "" THEN sc
    ELSE IF i = kMaxThreads THEN [g |-> Fail(sc.g, "out of threads"), i |-> i]
    ELSE IF sc.g.threads[i].ready \/ ~sc.g.threads[i].done \/ ~sc.g.threads[i].handled
    THEN [g |-> Fail(sc.g, "bad thread state in schedule"), i |-> i]
    ELSE [g |-> [sc.g EXCEPT
                    !.threads[i].copyout_pos = pos,
                    !.threads[i].copyout_index = copyout_index,
                    !.threads[i].done = FALSE,
                    !.threads[i].handled = FALSE,
                    !.threads[i].call_index = cidx,
                    !.threads[i].call_num = cnum,
                    !.threads[i].num_args = num_args,
                    !.threads[i].args = args,
                    !.threads[i].ready = TRUE,
                    !.running = @ + 1,
                    !.hist = Append(@, [ev |-> "sched", slot |-> i,
                                        call_index |-> cidx,
                                        collide |-> collide])],
          i |-> i]

\* thread_t* schedule_call(call_index, call_num, copyout_index, num_args,
\* args, pos): the globals afterwards and the slot returned.
schedule_call(g, cidx, cnum, copyout_index, num_args, args, pos) ==
    ArmSlot(ScanFrom(g, 0), cidx, cnum, copyout_index, num_args, args, pos)

\* execute_call arms a fault for the call of slot record t.
FaultArmed(t) == flag_inject_fault /\ t.call_index = flag_fault_call

\* An execute_call that forgets event_reset(&th->ready).
ExecuteCallBeginReadyKept(t) ==
    [thread |-> t,
     fatal |-> IF FaultArmed(t) /\ collide
               THEN "both collide and fault injection are enabled" ELSE ""]

\* execute_call up to the syscall: event_reset(&th->ready), the fault
\* injection check, cover_reset.  The fatal exit if any.
ExecuteCallBegin(t) ==
    [thread |-> [t EXCEPT !.ready = FALSE],
     fatal |-> IF FaultArmed(t) /\ collide
               THEN "both collide and fault injection are enabled" ELSE ""]

\* What the coverage facility reports for a call: PCs, or comparison
\* records when comparisons are collected.
CoverTrace(cnum, ok) ==
    IF flag_collect_comps
    THEN IF cnum = SysStore
         THEN <<[type |-> KCOV_CMP_SIZE8, arg1 |-> <<1, 2, 3, 4>>, arg2 |-> U64(5), pc |-> PcC]>>
         ELSE IF ok
         THEN <<[type |-> KCOV_CMP_SIZE1, arg1 |-> U64(254), arg2 |-> U64(1), pc |-> PcA],
                [type |-> KCOV_CMP_SIZE4 + KCOV_CMP_CONST, arg1 |-> <<0, 0, 32768, 1>>,
                 arg2 |-> U64(7), pc |-> PcB],
                [type |-> KCOV_CMP_SIZE1, arg1 |-> U64(254), arg2 |-> U64(1), pc |-> PcB]>>
         ELSE <<[type |-> KCOV_CMP_SIZE2 + KCOV_CMP_CONST, arg1 |-> U64(0), arg2 |-> U64(0),
                 pc |-> PcA]>>
    ELSE IF cnum = SysStore THEN <<PcC, PcA, PcC>>
         ELSE IF ok THEN <<PcA, PcB>>
         ELSE <<PcA>>

\* execute_syscall for the call of slot record t on memory m: the possible
\* returns (none: the call blocks).
Syscall(t, m) ==
    IF t.call_num = SysValue
    THEN IF t.args[1] = MinusOne
         THEN {[res |-> MinusOne, errno |-> EINVAL, mem |-> m]}
         ELSE {[res |-> t.args[1], errno |-> 0, mem |-> m]}
    ELSE IF t.call_num = SysStore
    THEN IF Mapped(t.args[1], 4)
         THEN {[res |-> U64(0), errno |-> 0,
                mem |-> copyin(m, t.args[1], Widen(StoreWord), U64(4), U64(0), U64(0)).mem]}
         ELSE {[res |-> MinusOne, errno |-> EFAULT, mem |-> m]}
    ELSE {}

\* execute_call from the return of the syscall on: res, reserrno,
\* cover_size, fault_injected, event_set(&th->done).
ExecuteCallEnd(t, r, fired) ==
    [t EXCEPT !.res = r.res,
              !.reserrno = r.errno,
              !.cover_data = CoverTrace(t.call_num, r.res # MinusOne),
              !.cover_size = Len(CoverTrace(t.call_num, r.res # MinusOne)),
              !.fault_injected = IF FaultArmed(t) THEN fired ELSE FALSE,
              !.done = TRUE]

(***************************************************************************)
(* receive_execute and execute_one                                         *)
(***************************************************************************)
\* The flags receive_execute derives from exec_flags and fault_call.
ParseExecFlags(exec_flags, fault_call) ==
    [collect_cover |-> FlagBit(exec_flags, ExecCollectCover),
     dedup_cover |-> FlagBit(exec_flags, ExecDedupCover),
     inject_fault |-> FlagBit(exec_flags, ExecInjectFault),
     collect_comps |-> FlagBit(exec_flags, ExecCollectComps),
     threaded |-> FlagBit(exec_flags, ExecThreaded),
     collide |-> IF ~FlagBit(exec_flags, ExecThreaded) THEN FALSE
                 ELSE FlagBit(exec_flags, ExecCollide),
     fault_call |-> fault_call]

\* A test that forgets that the replay has already happened.
CollideAgainForever == flag_collide /\ ~flag_inject_fault

\* A test that forgets flag_inject_fault.
CollideAgainWithFault == flag_collide /\ ~collide

\* The test at the end of execute_one: replay the program in collide mode.
CollideAgain == flag_collide /\ ~flag_inject_fault /\ ~collide

\* An execute_one that tests call_index before incrementing it.
AfterScheduleBeforeIncrement(ci) ==
    IF collide /\ (ci - 1) % 2 = 0 THEN "read"
    ELSE IF flag_threaded THEN "wait"
    ELSE "exec"

\* Where execute_one goes after schedule_call; ci is call_index, already
\* incremented.
AfterSchedule(ci) ==
    IF collide /\ ci % 2 = 0 THEN "read"
    ELSE IF flag_threaded THEN "wait"
    ELSE "exec"

\* ceil(size / 8): the words of a data argument.
DataWords(size) == (ToNat(size) + 7) \div 8

\* arg_csum_inet and the chunk kinds.
arg_csum_inet == U64(0)
arg_csum_chunk_data == U64(0)
arg_csum_chunk_const == U64(1)

\* The bytes of guest memory [addr, addr + n), or none when the range is not
\* mapped (the access is NONFAILING).
GuestBytes(m, addr, n) ==
    IF n > 0 /\ Mapped(addr, n)
    THEN [k \in 1..n |-> m[addr[4] + k - 1]]
    ELSE <<>>

\* The first n bytes of a 64-bit word as it lies in memory.
WordBytes(w, n) == [k \in 1..n |-> ByteOf(w, k - 1)]

RECURSIVE SumWords(_, _)
\* The sum of the 16-bit words of a byte sequence, an odd last byte alone.
SumWords(bytes, k) ==
    IF k > Len(bytes) THEN 0
    ELSE IF k = Len(bytes) THEN bytes[k]
    ELSE bytes[k] + 256 * bytes[k + 1] + SumWords(bytes, k + 2)

RECURSIVE Fold16(_)
\* The carries are folded back into the low 16 bits.
Fold16(acc) == IF acc < Limb THEN acc ELSE Fold16((acc % Limb) + (acc \div Limb))

\* csum_inet_update and csum_inet_digest: the one's-complement sum.
csum_inet_update(acc, bytes) == Fold16(acc + SumWords(bytes, 1))
csum_inet_digest(acc) == (Limb - 1) - acc

RECURSIVE CsumChunks(_, _, _, _)
\* The chunk loop of an inet checksum with n chunks left, the cursor at pos:
\* the accumulator and the cursor afterwards, the fatal exit if any.  Past
\* the program the buffer is zero, and a zero triple is an empty data chunk.
CsumChunks(m, acc, pos, n) ==
    IF n = 0 THEN [acc |-> acc, pos |-> pos, fatal |-> ""]
    ELSE IF InputOverflow(pos + 2)
    THEN [acc |-> acc, pos |-> pos, fatal |-> "input command overflows input"]
    ELSE IF pos >= Len(input_data)
    THEN IF InputOverflow(pos + 3 * n - 1)
         THEN [acc |-> acc, pos |-> pos, fatal |-> "input command overflows input"]
         ELSE [acc |-> acc, pos |-> pos + 3 * n, fatal |-> ""]
    ELSE LET chunk_kind == read_input(pos)
             chunk_value == read_input(pos + 1)
             chunk_size == read_input(pos + 2)
         IN  IF chunk_kind = arg_csum_chunk_data
             THEN CsumChunks(m, csum_inet_update(acc,
                                 IF IsSmall(chunk_size)
                                 THEN GuestBytes(m, chunk_value, ToNat(chunk_size))
                                 ELSE <<>>),
                             pos + 3, n - 1)
             ELSE IF chunk_kind = arg_csum_chunk_const
             THEN IF chunk_size \notin {U64(2), U64(4), U64(8)}
                  THEN [acc |-> acc, pos |-> pos + 3,
                        fatal |-> "bad checksum const chunk size"]
                  ELSE CsumChunks(m, csum_inet_update(acc,
                                      WordBytes(chunk_value, ToNat(chunk_size))),
                                  pos + 3, n - 1)
             ELSE [acc |-> acc, pos |-> pos + 3, fatal |-> "bad checksum chunk kind"]

\* What a COPYIN leaves after its store c: memory, the cursor, the fatal exit.
Stored(c, pos) == [mem |-> c.mem, pos |-> pos, fatal |-> c.fatal]

\* The digest of the chunk loop's outcome ch is stored at addr.
CsumStore(addr, ch) ==
    IF ch.fatal # "" THEN [mem |-> mem, pos |-> ch.pos, fatal |-> ch.fatal]
    ELSE Stored(copyin(mem, addr, U64(csum_inet_digest(ch.acc)), U64(2), U64(0), U64(0)),
                ch.pos)

\* The arg_csum case of COPYIN, the opcode at pos: memory and the cursor
\* afterwards, the fatal exit if any.
CsumStep(pos) ==
    LET addr == read_input(pos + 1)
        size == read_input(pos + 3)
        csum_kind == read_input(pos + 4)
        chunks_num == read_input(pos + 5)
    IN  IF InputOverflow(pos + 4)
        THEN [mem |-> mem, pos |-> pos, fatal |-> "input command overflows input"]
        ELSE IF csum_kind # arg_csum_inet
        THEN [mem |-> mem, pos |-> pos + 5, fatal |-> "bad checksum kind"]
        ELSE IF size # U64(2)
        THEN [mem |-> mem, pos |-> pos + 5, fatal |-> "inet checksum must be 2 bytes"]
        ELSE IF InputOverflow(pos + 5)
        THEN [mem |-> mem, pos |-> pos, fatal |-> "input command overflows input"]
        ELSE CsumStore(addr, CsumChunks(mem, 0, pos + 6,
                                        IF IsSmall(chunks_num) THEN ToNat(chunks_num)
                                        ELSE kMaxInputWords))

\* The COPYIN instruction whose opcode is at pos: memory and the cursor
\* afterwards, the fatal exit if any.
CopyinStep(pos) ==
    LET addr == read_input(pos + 1)
        typ == read_input(pos + 2)
        size == read_input(pos + 3)
    IN  IF InputOverflow(pos + 3)
        THEN [mem |-> mem, pos |-> pos, fatal |-> "input command overflows input"]
        ELSE IF typ = arg_const
        THEN IF InputOverflow(pos + 6)
             THEN [mem |-> mem, pos |-> pos, fatal |-> "input command overflows input"]
             ELSE Stored(copyin(mem, addr, read_input(pos + 4), size,
                                read_input(pos + 5), read_input(pos + 6)),
                         pos + 7)
        ELSE IF typ = arg_result
        THEN LET r == read_result(results, pos + 4) IN
             IF r.fatal # "" THEN [mem |-> mem, pos |-> r.pos, fatal |-> r.fatal]
             ELSE Stored(copyin(mem, addr, r.val, size, U64(0), U64(0)), r.pos)
        ELSE IF typ = arg_data
        THEN IF InputOverflow(pos + 3 + DataWords(size))
             THEN [mem |-> mem, pos |-> pos, fatal |-> "input command overflows input"]
             ELSE [mem |-> CopyData(mem, addr,
                                    [k \in 1..DataWords(size) |-> read_input(pos + 3 + k)],
                                    ToNat(size)),
                   pos |-> pos + 4 + DataWords(size), fatal |-> ""]
        ELSE IF typ = arg_csum
        THEN CsumStep(pos)
        ELSE [mem |-> mem, pos |-> pos + 4, fatal |-> "bad argument type"]

\* What schedule_call returned, with the cursor after the arguments.
AtCursor(sc, pos) == [g |-> sc.g, i |-> sc.i, pos |-> pos]

\* schedule_call for a call whose arguments were read as ra: the globals,
\* the slot and the cursor afterwards.
ScheduleRead(g, call_num, copyout_index, num_args, ra) ==
    IF ra.fatal # ""
    THEN [g |-> Fail(g, ra.fatal), i |-> th, pos |-> ra.pos]
    ELSE AtCursor(schedule_call(g, call_index, call_num, copyout_index, num_args,
                                [k \in 1..kMaxArgs |->
                                   IF k <= Len(ra.args) THEN ra.args[k] ELSE U64(0)],
                                ra.pos),
                  ra.pos)

\* The call instruction whose call_num is at pos: the arguments are read and
\* the call is scheduled.
CallStep(g, pos) ==
    LET call_num == read_input(pos)
        copyout_index == read_input(pos + 1)
        num_args == read_input(pos + 2)
    IN  IF ~U64Below(call_num, syscall_count)
        THEN [g |-> Fail(g, "invalid command number"), i |-> th, pos |-> pos + 1]
        ELSE IF InputOverflow(pos + 2)
        THEN [g |-> Fail(g, "input command overflows input"), i |-> th, pos |-> pos]
        ELSE IF ~U64Below(num_args, kMaxArgs + 1)
        THEN [g |-> Fail(g, "command has bad number of arguments"), i |-> th, pos |-> pos + 3]
        ELSE ScheduleRead(g, ToNat(call_num), copyout_index, ToNat(num_args),
                          ReadArgs(g.results, pos + 3, 0, ToNat(num_args)))

RECURSIVE SweepFromUnhandled(_, _)
\* A sweep that does not look at the done event.
SweepFromUnhandled(g, i) ==
    IF i = kMaxThreads \/ g.fatal # "" THEN g
    ELSE IF i \in DOMAIN g.threads /\ ~g.threads[i].handled
         THEN SweepFromUnhandled(handle_completion(g, i), i + 1)
         ELSE SweepFromUnhandled(g, i + 1)

RECURSIVE SweepFrom(_, _)
\* for (i = 0; i < kMaxThreads; i++) if (!th->handled && event_isset(&th->done))
\*     handle_completion(th), from slot i on.
SweepFrom(g, i) ==
    IF i = kMaxThreads \/ g.fatal # "" THEN g
    ELSE IF ~ThreadAt(g.threads, i).handled /\ ThreadAt(g.threads, i).done
         THEN SweepFrom(handle_completion(g, i), i + 1)
         ELSE SweepFrom(g, i + 1)

SetGlobals(g) ==
    /\ threads' = g.threads
    /\ results' = g.results
    /\ dedup_table' = g.dedup_table
    /\ output_data' = g.output_data
    /\ completed' = g.completed
    /\ running' = g.running
    /\ fatal' = g.fatal
    /\ hist' = g.hist

Alive == fatal = ""

(***************************************************************************)
(* The execute requests of the model                                       *)
(***************************************************************************)
\* The longest generated program, in calls.
MaxCalls == 3
\* The longest generated program of a request with the collide flag.
MaxCollideCalls == 2
\* The largest fault_call of a request.
MaxFaultCall == 1

\* A call of SysValue that returns v and records it at copyout_index.
ValueCall(copyout_index, v) == Call(SysValue, copyout_index, <<ArgConst(v)>>)
\* A call of SysValue whose arguments are result(0, 2, 1), result(0, 3, -1)
\* and result(7, 2, 1), of an index no call writes.
BackrefCall ==
    Call(SysValue, no_copyout, <<ArgResult(U64(0), U64(2), U64(1)),
                                 ArgResult(U64(0), U64(3), MinusOne),
                                 ArgResult(U64(7), U64(2), U64(1))>>)
\* A call that blocks.
PauseCall == Call(SysPause, no_copyout, <<>>)

\* The calls the generated programs are made of.
CallKinds == {ValueCall(U64(0), U64(10)), PauseCall}

RECURSIVE CallSeqs(_)
\* The instruction streams of exactly n calls of CallKinds.
CallSeqs(n) ==
    IF n = 0 THEN {<<>>}
    ELSE {c \o p : c \in CallKinds, p \in CallSeqs(n - 1)}

\* Every program of at most n calls of CallKinds.
GeneratedPrograms(n) == {p \o Eof : p \in UNION {CallSeqs(k) : k \in 0..n}}

\* The scenarios of the specification and programs for the other instructions.
ScenarioPrograms ==
    { \* call A records its result at index 0, call B uses result(0, 2, 1)
      ValueCall(U64(0), U64(10)) \o BackrefCall \o Eof,
      \* the same with A failing
      ValueCall(U64(0), MinusOne) \o BackrefCall \o Eof,
      \* a call that stores to guest memory, COPYOUT records after it
      Call(SysStore, no_copyout, <<ArgConst(MemBase)>>) \o Copyout(0, MemBase, 4)
          \o Copyout(1, U64(64), 8)
          \o Call(SysValue, U64(2), <<ArgResult(U64(0), U64(0), U64(0)),
                                      ArgResult(U64(1), U64(2), U64(1)),
                                      ArgResult(U64(1), U64(0), U64(1))>>) \o Eof,
      \* copyin of a constant, a bitfield, a result, data and a checksum
      CopyinConst(MemBase, 2, U64(513), 0, 0) \o CopyinConst(MemBase, 1, U64(3), 4, 2)
          \o CopyinResult(U64Add(MemBase, U64(4)), 4, U64(5), U64(0), U64(0))
          \o CopyinData(U64Add(MemBase, U64(2)), 2, <<U64(772)>>)
          \o CopyinCsum(U64Add(MemBase, U64(6)),
                        <<<<U64(0), MemBase, U64(4)>>, <<U64(1), U64(8), U64(2)>>>>)
          \o ValueCall(U64(5), U64(1)) \o Copyout(6, MemBase, 8) \o Eof,
      \* a COPYOUT into the index of its own call, and COPYOUTs after a call
      \* that fails
      ValueCall(U64(0), U64(10)) \o Copyout(0, MemBase, 4)
          \o ValueCall(U64(3), MinusOne) \o Copyout(4, MemBase, 4)
          \o Copyout(0, MemBase, 1) \o Eof }

\* Programs that end in a fatal exit.
BadPrograms ==
    { Call(SysValue, no_copyout, <<ArgResult(U64(kMaxCommands), U64(0), U64(0))>>) \o Eof,
      Call(syscall_count, no_copyout, <<>>) \o Eof,
      <<U64(SysValue), no_copyout, U64(kMaxArgs + 1)>> \o Eof,
      Call(SysValue, no_copyout, <<<<arg_data, U64(8), U64(0)>>>>) \o Eof,
      ValueCall(U64(kMaxCommands), U64(1)) \o Eof,
      ValueCall(no_copyout, U64(1)) \o Copyout(kMaxCommands, MemBase, 4) \o Eof,
      ValueCall(no_copyout, U64(1)) \o Copyout(0, MemBase, 3) \o Eof,
      CopyinConst(MemBase, 3, U64(1), 0, 0) \o Eof }

\* The programs of the requests without the collide flag, and with it.
Programs == GeneratedPrograms(MaxCalls) \cup ScenarioPrograms \cup BadPrograms
CollidePrograms == GeneratedPrograms(MaxCollideCalls) \cup ScenarioPrograms

\* exec_flags values: the output modes (none, collect_cover, collect_cover
\* with dedup_cover, collect_comps) and the inject_fault bit.
OutputModes == {0, Pow2(ExecCollectCover), Pow2(ExecCollectCover) + Pow2(ExecDedupCover),
                Pow2(ExecCollectComps)}
FaultModes == {0, Pow2(ExecInjectFault)}

\* Non-threaded requests: every combination of the low four bits, and the
\* collide bit, which receive_execute clears.
NonThreadedFlagSets == 0..15 \cup {Pow2(ExecCollide), Pow2(ExecCollide) + Pow2(ExecInjectFault)}
ThreadedFlagSets == {Pow2(ExecThreaded) + o + f : o \in OutputModes, f \in FaultModes}
CollideFlagSets ==
    {Pow2(ExecThreaded) + Pow2(ExecCollide) + f : f \in FaultModes}

\* fault_call matters only with inject_fault.
FaultCalls(exec_flags) ==
    IF FlagBit(exec_flags, ExecInjectFault) THEN 0..MaxFaultCall ELSE {0}

\* What receive_execute can read: exec_flags, fault_call and the program.
RequestsOf(flagsets, progs) ==
    UNION {[exec_flags : {m}, fault_call : FaultCalls(m), prog : progs] : m \in flagsets}

Requests ==
    RequestsOf(NonThreadedFlagSets \cup ThreadedFlagSets, Programs)
        \cup RequestsOf(CollideFlagSets, CollidePrograms)

(***************************************************************************)
(* Actions: the main thread                                                *)
(***************************************************************************)
Init ==
    /\ pc = "recv"
    /\ req = [exec_flags |-> 0, fault_call |-> 0]
    /\ flags = ParseExecFlags(0, 0)
    /\ input_data = <<>>
    /\ input_pos = 0
    /\ call_index = 0
    /\ th = 0
    /\ collide = FALSE
    /\ mem = [a \in 0..(MemSize - 1) |-> 0]
    /\ in_call = {}
    /\ passes = 0
    /\ threads = <<>>
    /\ results = <<>>
    /\ dedup_table = <<>>
    /\ output_data = <<>>
    /\ completed = 0
    /\ running = 0
    /\ fatal = ""
    /\ hist = <<>>

\* receive_execute for one of the requests reqs: the flags are set and the
\* program is read into input_data.
ReceiveFrom(reqs) ==
    /\ pc = "recv" /\ Alive
    /\ \E r \in reqs :
          /\ req' = [exec_flags |-> r.exec_flags, fault_call |-> r.fault_call]
          /\ flags' = ParseExecFlags(r.exec_flags, r.fault_call)
          /\ input_data' = r.prog
    /\ pc' = "start"
    /\ UNCHANGED <<input_pos, call_index, th, collide, mem, in_call, passes, threads,
                   results, dedup_table, output_data, completed, running, fatal, hist>>

ReceiveExecute == ReceiveFrom(Requests)

\* execute_one from retry: the cursor is reset and the header word written.
ExecuteStart ==
    /\ pc = "start" /\ Alive
    /\ input_pos' = 0
    /\ output_data' = write_output(output_data, U32(0))
    /\ call_index' = 0
    /\ passes' = passes + 1
    /\ pc' = "read"
    /\ UNCHANGED <<req, flags, input_data, th, collide, mem, in_call, threads, results,
                   dedup_table, completed, running, fatal, hist>>

\* The state after a COPYIN instruction that left c.
CopyinDone(c) ==
    /\ mem' = c.mem
    /\ input_pos' = c.pos
    /\ fatal' = c.fatal
    /\ UNCHANGED <<pc, call_index, th, collide, threads, results, dedup_table,
                   output_data, completed, running, hist>>

\* The state after a call instruction that left c: call_index is incremented
\* and execute_one goes on to wait for the call or to execute it.
CallDone(c) ==
    /\ input_pos' = c.pos
    /\ call_index' = call_index + 1
    /\ th' = c.i
    /\ IF c.g.fatal = "" /\ AfterSchedule(call_index + 1) = "exec" /\ c.i # 0
       THEN SetGlobals(Fail(c.g, "using non-main thread in non-thread mode"))
       ELSE SetGlobals(c.g)
    /\ pc' = IF c.g.fatal = "" THEN AfterSchedule(call_index + 1) ELSE pc
    /\ UNCHANGED <<collide, mem>>

\* One turn of the loop of execute_one: the instruction at the cursor.
ReadInstruction ==
    /\ pc = "read" /\ Alive
    /\ LET instr == read_input(input_pos) IN
       IF InputOverflow(input_pos)
       THEN /\ fatal' = "input command overflows input"
            /\ UNCHANGED <<pc, input_pos, call_index, th, collide, mem, threads, results,
                           dedup_table, output_data, completed, running, hist>>
       ELSE IF instr = instr_eof
       THEN /\ IF CollideAgain
               THEN collide' = TRUE /\ pc' = "start"
               ELSE collide' = collide /\ pc' = "done"
            /\ input_pos' = input_pos + 1
            /\ UNCHANGED <<call_index, th, mem, threads, results, dedup_table,
                           output_data, completed, running, fatal, hist>>
       ELSE IF instr = instr_copyin
       THEN CopyinDone(CopyinStep(input_pos))
       ELSE IF instr = instr_copyout
       THEN /\ IF InputOverflow(input_pos + 3)
               THEN fatal' = "input command overflows input" /\ input_pos' = input_pos
               ELSE fatal' = fatal /\ input_pos' = input_pos + 4
            /\ UNCHANGED <<pc, call_index, th, collide, mem, threads, results,
                           dedup_table, output_data, completed, running, hist>>
       ELSE CallDone(CallStep(Globals, input_pos))
    /\ UNCHANGED <<req, flags, input_data, in_call, passes>>

\* A timed wait whose handle_completion reads the COPYOUT records through
\* the cursor of execute_one.
TimedWaitSharedCursor ==
    /\ pc = "wait" /\ Alive
    /\ SetGlobals(IF ThreadAt(threads, th).done THEN handle_completion(Globals, th) ELSE Globals)
    /\ input_pos' = IF ThreadAt(threads, th).done
                    THEN handle_completion(Globals, th).threads[th].copyout_pos
                    ELSE input_pos
    /\ pc' = "sweep"
    /\ UNCHANGED <<req, flags, input_data, call_index, th, collide, mem, in_call, passes>>

\* A wait on done without a timeout, as event_wait(&th->done) would be.
WaitReturnsWhenDone == pc = "wait" /\ ThreadAt(threads, th).done

\* event_timedwait(&th->done, timeout_ms) returns when done is set or the
\* timeout has passed: the main thread at the wait can always go on.
WaitReturns == pc = "wait"

\* if (event_timedwait(&th->done, timeout_ms)) handle_completion(th)
TimedWait ==
    /\ WaitReturns /\ Alive
    /\ SetGlobals(IF ThreadAt(threads, th).done THEN handle_completion(Globals, th) ELSE Globals)
    /\ pc' = "sweep"
    /\ UNCHANGED <<req, flags, input_data, input_pos, call_index, th, collide, mem, in_call,
                   passes>>

\* The check of running and the sweep over the slots after the timed wait.
Sweep ==
    /\ pc = "sweep" /\ Alive
    /\ IF running < 0
       THEN SetGlobals(Fail(Globals, "running < 0"))
       ELSE IF running > 0
       THEN IF InputOverflow(input_pos)
            THEN SetGlobals(Fail(Globals, "input command overflows input"))
            ELSE SetGlobals(SweepFrom(Globals, 0))
       ELSE SetGlobals(Globals)
    /\ pc' = "read"
    /\ UNCHANGED <<req, flags, input_data, input_pos, call_index, th, collide, mem, in_call,
                   passes>>

\* Non-threaded mode: execute_call(th) on the main thread, up to the syscall.
ExecuteDirect ==
    /\ pc = "exec" /\ Alive
    /\ LET b == ExecuteCallBegin(threads[th]) IN
       /\ threads' = [threads EXCEPT ![th] = b.thread]
       /\ fatal' = b.fatal
    /\ in_call' = in_call \cup {th}
    /\ pc' = "syscall"
    /\ UNCHANGED <<req, flags, input_data, input_pos, call_index, th, collide, mem, passes,
                   results, dedup_table, output_data, completed, running, hist>>

\* Non-threaded mode: the syscall returns and execute_call finishes.
ExecuteReturn ==
    /\ pc = "syscall" /\ Alive
    /\ \E r \in Syscall(threads[th], mem) :
       \E fired \in IF FaultArmed(threads[th]) THEN BOOLEAN ELSE {FALSE} :
          /\ threads' = [threads EXCEPT ![th] = ExecuteCallEnd(threads[th], r, fired)]
          /\ mem' = r.mem
    /\ in_call' = in_call \ {th}
    /\ pc' = "complete"
    /\ UNCHANGED <<req, flags, input_data, input_pos, call_index, th, collide, passes,
                   results, dedup_table, output_data, completed, running, fatal, hist>>

\* A non-threaded path that leaves the completion to the next schedule_call.
CompleteDirectLater ==
    /\ pc = "complete" /\ Alive
    /\ pc' = "read"
    /\ UNCHANGED <<req, flags, input_data, input_pos, call_index, th, collide, mem, in_call,
                   passes, threads, results, dedup_table, output_data, completed, running,
                   fatal, hist>>

\* Non-threaded mode: handle_completion(th) after execute_call.
CompleteDirect ==
    /\ pc = "complete" /\ Alive
    /\ SetGlobals(handle_completion(Globals, th))
    /\ pc' = "read"
    /\ UNCHANGED <<req, flags, input_data, input_pos, call_index, th, collide, mem, in_call,
                   passes>>

(***************************************************************************)
(* Actions: the workers                                                    *)
(***************************************************************************)
\* The execute is under way: the workers run until execute_one has returned.
Executing == Alive /\ pc \notin {"recv", "done"}

\* A worker_thread that does not wait for ready before execute_call.
WorkerStartEager(i) ==
    /\ Executing /\ flag_threaded
    /\ ThreadAt(threads, i).created /\ i \notin in_call
    /\ LET b == ExecuteCallBegin(threads[i]) IN
       /\ threads' = [threads EXCEPT ![i] = b.thread]
       /\ fatal' = b.fatal
    /\ in_call' = in_call \cup {i}
    /\ UNCHANGED <<pc, req, flags, input_data, input_pos, call_index, th, collide, mem,
                   passes, results, dedup_table, output_data, completed, running, hist>>

\* worker_thread: event_wait(&th->ready) returns and execute_call runs up to
\* the syscall.
WorkerStart(i) ==
    /\ Executing /\ flag_threaded
    /\ ThreadAt(threads, i).created /\ threads[i].ready /\ i \notin in_call
    /\ LET b == ExecuteCallBegin(threads[i]) IN
       /\ threads' = [threads EXCEPT ![i] = b.thread]
       /\ fatal' = b.fatal
    /\ in_call' = in_call \cup {i}
    /\ UNCHANGED <<pc, req, flags, input_data, input_pos, call_index, th, collide, mem,
                   passes, results, dedup_table, output_data, completed, running, hist>>

\* worker_thread: the syscall returns and execute_call finishes.
WorkerFinish(i) ==
    /\ Executing /\ flag_threaded
    /\ i \in in_call
    /\ \E r \in Syscall(threads[i], mem) :
       \E fired \in IF FaultArmed(threads[i]) THEN BOOLEAN ELSE {FALSE} :
          /\ threads' = [threads EXCEPT ![i] = ExecuteCallEnd(threads[i], r, fired)]
          /\ mem' = r.mem
    /\ in_call' = in_call \ {i}
    /\ UNCHANGED <<pc, req, flags, input_data, input_pos, call_index, th, collide, passes,
                   results, dedup_table, output_data, completed, running, fatal, hist>>

Next ==
    \/ ReceiveExecute
    \/ ExecuteStart
    \/ ReadInstruction
    \/ TimedWait
    \/ Sweep
    \/ ExecuteDirect
    \/ ExecuteReturn
    \/ CompleteDirect
    \/ \E i \in Slots : WorkerStart(i)
    \/ \E i \in Slots : WorkerFinish(i)

Spec == Init /\ [][Next]_vars

(***************************************************************************)
(* The pool under calls that block                                         *)
(***************************************************************************)
RECURSIVE Repeat(_, _)
\* n copies of the instruction stream p.
Repeat(p, n) == IF n = 0 THEN <<>> ELSE p \o Repeat(p, n - 1)

\* Threaded requests whose program is one call more than there are slots,
\* every call blocking.
PoolRequests ==
    RequestsOf({Pow2(ExecThreaded)}, {Repeat(PauseCall, kMaxThreads + 1) \o Eof})

ReceivePool == ReceiveFrom(PoolRequests)

\* The workers of the armed slots wake in slot order.  A worker that wakes
\* changes its own slot's ready only, which the scan of schedule_call does
\* not read on a slot that is not done, so the order in which the workers
\* of different slots wake is immaterial to the main thread.
WorkerStartInOrder(i) ==
    /\ \A j \in 0..(i - 1) : ~ThreadAt(threads, j).ready
    /\ WorkerStart(i)

NextPool ==
    \/ ReceivePool
    \/ ExecuteStart
    \/ ReadInstruction
    \/ TimedWait
    \/ Sweep
    \/ \E i \in Slots : WorkerStartInOrder(i)

SpecPool == Init /\ [][NextPool]_vars

(***************************************************************************)
(* Threaded executes with a main thread that keeps running                 *)
(***************************************************************************)
\* The longest generated program of a threaded execute whose return is
\* checked.
MaxLiveCalls == 2

\* The threaded requests, without and with the collide flag; a program with
\* the collide flag is run twice, and the generated ones are a call shorter.
ThreadedRequests ==
    RequestsOf(ThreadedFlagSets,
               GeneratedPrograms(MaxLiveCalls) \cup ScenarioPrograms \cup BadPrograms)
        \cup RequestsOf(CollideFlagSets,
                        GeneratedPrograms(MaxLiveCalls - 1) \cup ScenarioPrograms)

ReceiveThreaded == ReceiveFrom(ThreadedRequests)

NextThreaded ==
    \/ ReceiveThreaded
    \/ ExecuteStart
    \/ ReadInstruction
    \/ TimedWait
    \/ Sweep
    \/ \E i \in Slots : WorkerStart(i)
    \/ \E i \in Slots : WorkerFinish(i)

\* The guards of the steps of the main thread in threaded mode: each of
\* ReceiveThreaded, ExecuteStart, ReadInstruction, TimedWait and Sweep is its
\* guard and an assignment to every variable.
MainCanStep == Alive /\ (pc \in {"recv", "start", "read", "sweep"} \/ WaitReturns)

\* A step of the main thread: each of them changes pc, the cursor or fatal,
\* and no step of a worker does.  The first disjunct is an instance of the
\* second, written as an assignment to every variable.
MainMoved ==
    \/ /\ input_pos' = input_pos + 1
       /\ UNCHANGED <<pc, req, flags, input_data, call_index, th, collide, mem, in_call,
                      passes, threads, results, dedup_table, output_data, completed,
                      running, fatal, hist>>
    \/ pc' # pc \/ input_pos' # input_pos \/ fatal' # fatal

\* The main thread is scheduled again and again: its steps are bounded
\* pieces of code, the wait on done has a timeout and the sleeps are of 1
\* or 10 ms.  Nothing is assumed of the workers: a call may never start and
\* may never return.
SpecThreaded == Init /\ [][NextThreaded]_vars /\ WF_vars(MainCanStep /\ MainMoved)

(***************************************************************************)
(* dedup on its own                                                        *)
(***************************************************************************)
\* The longest sequence of presentations.
MaxDedupCalls == 4

\* Signals that share probe slots: five with slot 5 first, one with slot 6
\* first, one whose probes wrap around the table, zero, and one with slot 0
\* first.
DedupSignals ==
    {U32(0), U32(5), U32(5 + dedup_table_size), U32(5 + 2 * dedup_table_size),
     U32(5 + 3 * dedup_table_size), U32(5 + 4 * dedup_table_size), U32(6),
     <<Limb - 1, Limb - 1>>, U32(2 * dedup_table_size)}

RECURSIVE TableAfter(_, _)
\* The table after the signals of seq were presented to the table t.
TableAfter(t, seq) ==
    IF seq = <<>> THEN t ELSE TableAfter(dedup(t, Head(seq)).table, Tail(seq))

\* The tables the presentations start from: empty, slots 5 to 7 taken,
\* slots 5 to 8 taken, and slots 0 to 3 taken.
DedupTables ==
    {TableAfter(<<>>, <<>>),
     TableAfter(<<>>, <<U32(dedup_table_size), U32(2 * dedup_table_size),
                        U32(3 * dedup_table_size), U32(4 * dedup_table_size)>>),
     TableAfter(<<>>, <<U32(5 + dedup_table_size), U32(5 + 2 * dedup_table_size),
                        U32(5 + 3 * dedup_table_size)>>),
     TableAfter(<<>>, <<U32(5 + dedup_table_size), U32(5 + 2 * dedup_table_size),
                        U32(5 + 3 * dedup_table_size), U32(5 + 4 * dedup_table_size)>>)}

InitDedup ==
    /\ pc = "dedup"
    /\ dedup_table \in DedupTables
    /\ req = [exec_flags |-> 0, fault_call |-> 0]
    /\ flags = ParseExecFlags(0, 0)
    /\ input_data = <<>>
    /\ input_pos = 0
    /\ call_index = 0
    /\ th = 0
    /\ collide = FALSE
    /\ mem = [a \in 0..(MemSize - 1) |-> 0]
    /\ in_call = {}
    /\ passes = 0
    /\ threads = <<>>
    /\ results = <<>>
    /\ output_data = <<>>
    /\ completed = 0
    /\ running = 0
    /\ fatal = ""
    /\ hist = <<>>

\* What one presentation did: the signal, the answer, the table before it.
Presented(sig, d, before) == [ev |-> "dedup", sig |-> sig, ret |-> d.ret, before |-> before]

\* dedup(sig) for some signal.
DedupCall ==
    /\ pc = "dedup" /\ Len(hist) < MaxDedupCalls
    /\ \E sig \in DedupSignals :
          /\ dedup_table' = dedup(dedup_table, sig).table
          /\ hist' = Append(hist, Presented(sig, dedup(dedup_table, sig), dedup_table))
    /\ UNCHANGED <<pc, req, flags, input_data, input_pos, call_index, th, collide, mem,
                   in_call, passes, threads, results, output_data, completed, running,
                   fatal>>

NextDedup == DedupCall

SpecDedup == InitDedup /\ [][NextDedup]_vars

(***************************************************************************)
(* Reading the output buffer back, as the parent does                      *)
(***************************************************************************)
\* The value of a 32-bit output word (the counts and indices are small).
N32(w) == w[1] * Limb + w[2]

RECURSIVE CompsEnd(_, _, _)
\* The last word of n comparison records that start after word pos: a type
\* word, then two operand words, or four for 8-byte operands.
CompsEnd(out, pos, n) ==
    IF n = 0 \/ pos >= Len(out) THEN pos
    ELSE CompsEnd(out,
                  pos + (IF ((N32(out[pos + 1]) \div 2) % 4) * 2 = KCOV_CMP_SIZE8
                         THEN 5 ELSE 3),
                  n - 1)

\* The fixed words of a record.
RecordWords == 7

\* The record that starts after word pos, and its last word.
RecordAt(out, pos) ==
    [call_index |-> N32(out[pos + 1]), call_num |-> N32(out[pos + 2]),
     reserrno |-> N32(out[pos + 3]), fault_injected |-> N32(out[pos + 4]),
     nsig |-> N32(out[pos + 5]), ncover |-> N32(out[pos + 6]),
     ncomps |-> N32(out[pos + 7]),
     end |-> CompsEnd(out, pos + RecordWords + N32(out[pos + 5]) + N32(out[pos + 6]),
                      N32(out[pos + 7]))]

RECURSIVE RecordsFrom(_, _)
\* The record r, if it is whole, and the records after it.
RecordsWith(out, r) ==
    IF r.end > Len(out) THEN <<>> ELSE <<r>> \o RecordsFrom(out, r.end)

\* The records of the output after word pos, for as long as whole records
\* follow.
RecordsFrom(out, pos) ==
    IF pos + RecordWords > Len(out) THEN <<>>
    ELSE RecordsWith(out, RecordAt(out, pos))

\* The completion records in the output buffer, after header word 0.
Records == RecordsFrom(output_data, 1)

\* The words of the output that belong to no record: nothing, or the zero
\* word that the retry of execute_one writes after the first pass.
TrailerOf(recs) ==
    IF recs = <<>> THEN SubSeq(output_data, 2, Len(output_data))
    ELSE SubSeq(output_data, recs[Len(recs)].end + 1, Len(output_data))
Trailer == TrailerOf(Records)

\* The events of the history of kind ev.
Events(ev) == SelectSeq(hist, LAMBDA h : h.ev = ev)
\* The completions handled with the collide flag clear.
Emitting == SelectSeq(hist, LAMBDA h : h.ev = "done" /\ ~h.collide)
\* The call indices scheduled with the collide flag clear.
FirstPassCalls ==
    {hist[k].call_index : k \in {j \in DOMAIN hist : hist[j].ev = "sched" /\ ~hist[j].collide}}
\* The number of records in the output for call index c.
CountIn(recs, c) == Cardinality({k \in DOMAIN recs : recs[k].call_index = c})
RecordCount(c) == CountIn(Records, c)
\* The schedule event a completion event hist[k] answers: the latest one on
\* its slot before it.
ScheduleOf(k) ==
    hist[CHOOSE j \in 1..(k - 1) :
            /\ hist[j].ev = "sched" /\ hist[j].slot = hist[k].slot
            /\ \A m \in (j + 1)..(k - 1) :
                  ~(hist[m].ev = "sched" /\ hist[m].slot = hist[k].slot)]

(***************************************************************************)
(* C1: completion records per scheduled call                               *)
(***************************************************************************)
\* C1 as stated: when execute_one returns, every call scheduled with the
\* collide flag clear has exactly one completion record in the output.
C1_EveryCallHasOneRecord ==
    pc = "done" => \A c \in FirstPassCalls : RecordCount(c) = 1

\* The records recs against the completions emit handled with the collide
\* flag clear and the calls scheduled with it clear.
OneRecordEach(recs, emit, calls) ==
    /\ \A k \in DOMAIN recs : recs[k].call_index \in calls
    /\ \A c \in calls :
          /\ CountIn(recs, c) <= 1
          /\ CountIn(recs, c) = 1 <=> \E k \in DOMAIN emit : emit[k].call_index = c
    /\ Len(recs) = Len(emit)
    /\ (pc = "done" /\ ~flag_threaded) => \A c \in calls : CountIn(recs, c) = 1

\* C1 amended: a scheduled call has at most one record and only scheduled
\* calls have records; there is one record per completion handled with the
\* collide flag clear and none for a completion handled with it set, so a
\* call has its record exactly if its completion was handled with the flag
\* clear; in non-threaded mode every scheduled call has its record when
\* execute_one returns.
C1_OneRecordPerHandledCompletion == OneRecordEach(Records, Emitting, FirstPassCalls)

\* A threaded execute returns with one call recorded, and another call of
\* the first pass without a record although its completion was handled, in
\* the collide pass.
C1_Witness ==
    /\ pc = "done" /\ flag_threaded
    /\ \E c \in FirstPassCalls : RecordCount(c) = 1
    /\ \E k \in DOMAIN hist :
          /\ hist[k].ev = "done" /\ hist[k].collide
          /\ ~ScheduleOf(k).collide
          /\ RecordCount(hist[k].call_index) = 0

(***************************************************************************)
(* C2: the running counter                                                 *)
(***************************************************************************)
\* The created slots whose completion has not been handled.
Unhandled == {i \in DOMAIN threads : ~threads[i].handled}

\* C2 as stated: running is never negative, and is 0 when execute_one
\* returns.
C2_RunningZeroAtReturn == running >= 0 /\ (pc = "done" => running = 0)

\* C2 amended: running is never negative; when execute_one returns it is 0
\* exactly if no scheduled call is left unhandled, which is always so in
\* non-threaded mode.
C2_RunningNonNegative ==
    /\ running >= 0
    /\ pc = "done" => (running = 0 <=> Unhandled = {})
    /\ (pc = "done" /\ ~flag_threaded) => running = 0

\* A threaded execute returns while a call it scheduled is still unhandled.
C2_Witness ==
    /\ pc = "done" /\ flag_threaded /\ running > 0
    /\ \E i \in DOMAIN threads : ~threads[i].handled /\ threads[i].done

(***************************************************************************)
(* C3: the completed counter in header word 0                              *)
(***************************************************************************)
\* Header word 0 of the output.
HeaderCount == N32(output_data[1])

\* C3: once the header is written, header word 0 is the completed counter
\* and counts exactly the records in the output, each of them whole (every
\* word after the header belongs to a record whose three counts are filled
\* in); there is one record per completion handled with the collide flag
\* clear, so a completion handled with it set leaves the counter unchanged;
\* the counter never decreases and grows by one with each record.
C3_HeaderCountsWholeRecords ==
    /\ [](output_data # <<>> =>
            /\ HeaderCount = completed
            /\ completed = Len(Records)
            /\ completed = Len(Emitting)
            /\ Trailer \in {<<>>, <<U32(0)>>})
    /\ [][/\ completed' >= completed
          /\ completed' - completed = Len(Emitting') - Len(Emitting)]_vars

\* execute_one returns after a collide pass in which completions were
\* handled, with records from the first pass in the output.
C3_Witness ==
    /\ pc = "done" /\ collide /\ completed >= 1
    /\ HeaderCount = completed
    /\ \E k \in DOMAIN hist : hist[k].ev = "done" /\ hist[k].collide

(***************************************************************************)
(* C4: the order of the records                                            *)
(***************************************************************************)
\* The records recs are, one for one, the completions emit.
InOrder(recs, emit) ==
    /\ Len(recs) = Len(emit)
    /\ \A k \in DOMAIN recs :
          k <= Len(emit) => recs[k].call_index = emit[k].call_index

\* C4: the records are in the output in the order in which handle_completion
\* was invoked for their calls (with the collide flag clear).
C4_RecordsInCompletionOrder == InOrder(Records, Emitting)

\* A record with a larger call_index precedes one with a smaller call_index.
C4_Witness ==
    /\ flag_threaded
    /\ \E j, k \in DOMAIN Records : j < k /\ Records[j].call_index > Records[k].call_index

(***************************************************************************)
(* C5: back-reference arguments                                            *)
(***************************************************************************)
\* The word is below 2^31.
Fits31(w) == w[1] = 0 /\ w[2] = 0 /\ w[3] < 32768

\* 2^63 - 1 and 2^63.
MaxInt64 == <<32767, 65535, 65535, 65535>>
MinInt64 == <<32768, 0, 0, 0>>

\* Reference values of v / d and q + a modulo 2^64, by integer arithmetic
\* where the operands allow it and by value for the large operands of the
\* programs; <<>> where no reference value is given.
RefQuot(v, d) ==
    IF d = U64(0) \/ d = U64(1) THEN v
    ELSE IF Fits31(v) /\ Fits31(d) THEN U64(ToNat(v) \div ToNat(d))
    ELSE IF v = MinusOne /\ d = U64(2) THEN MaxInt64
    ELSE <<>>

RefSum(q, a) ==
    IF q = <<>> THEN <<>>
    ELSE IF a = U64(0) THEN q
    ELSE IF IsSmall(q) /\ IsSmall(a) THEN U64(ToNat(q) + ToNat(a))
    ELSE IF a = MinusOne /\ Fits31(q) /\ ToNat(q) >= 1 THEN U64(ToNat(q) - 1)
    ELSE IF q = MinusOne /\ a = U64(1) THEN U64(0)
    ELSE IF q = MaxInt64 /\ a = U64(1) THEN MinInt64
    ELSE <<>>

\* The offset of argument k of the call whose call_num is at pos.
ArgPos(pos, k) == pos + 3 + 5 * (k - 1)

\* The instruction at the cursor is a call with a well-formed head.
CallAtCursor ==
    /\ pc = "read" /\ Alive
    /\ read_input(input_pos) \notin {instr_eof, instr_copyin, instr_copyout}
    /\ U64Below(read_input(input_pos), syscall_count)
    /\ U64Below(read_input(input_pos + 2), kMaxArgs + 1)

\* Call A records its result v at index 0, call B takes result(0, 2, 1).
BackrefProgram(v) == ValueCall(U64(0), v) \o BackrefCall \o Eof

\* C5: when the main thread reads a call, each result(idx, div, add) argument is fatal for
\* idx >= kMaxCommands; otherwise the slot is armed with DEFAULT_VALUE if
\* results[idx] is not executed at that moment and with val / div + add
\* modulo 2^64 (no division for div = 0) if it is.  In non-threaded mode B
\* of the program above gets 6 when A returned 10 and 2^64-1 when A failed.
C5_BackrefResolves ==
    [][(CallAtCursor /\ call_index' = call_index + 1) =>
        /\ \A k \in 1..ToNat(read_input(input_pos + 2)) :
              read_input(ArgPos(input_pos, k)) = arg_result =>
                 LET idx == read_input(ArgPos(input_pos, k) + 2)
                     op_div == read_input(ArgPos(input_pos, k) + 3)
                     op_add == read_input(ArgPos(input_pos, k) + 4)
                 IN  IF ~U64Below(idx, kMaxCommands)
                     THEN fatal' # ""
                     ELSE fatal' = "" =>
                            threads'[th'].args[k] =
                               IF ToNat(idx) \in DOMAIN results
                               THEN RefSum(RefQuot(results[ToNat(idx)], op_div), op_add)
                               ELSE default_value
        /\ (~flag_threaded /\ call_index = 1 /\ fatal' = "") =>
              /\ input_data = BackrefProgram(U64(10)) => threads'[th'].args[1] = U64(6)
              /\ input_data = BackrefProgram(MinusOne) => threads'[th'].args[1] = MinusOne
      ]_vars

\* B is armed with 6 after A returned 10.
C5_Witness ==
    /\ input_data = BackrefProgram(U64(10))
    /\ 0 \in DOMAIN results /\ results[0] = U64(10)
    /\ \E i \in DOMAIN threads : threads[i].call_index = 1 /\ threads[i].args[1] = U64(6)

(***************************************************************************)
(* C6: the collide pass                                                    *)
(***************************************************************************)
\* C6: execute_one runs the program at most twice; the second pass runs
\* exactly if flag_collide is set and flag_inject_fault is clear when the
\* first pass reaches EOF (the collide flag is still clear then and set from
\* then on); a request without the threaded bit never has a second pass,
\* whatever its collide bit.
C6_AtMostOneReplay ==
    /\ passes <= 2
    /\ passes = 2 => collide
    /\ collide => (passes = 2 \/ (passes = 1 /\ pc = "start"))
    /\ collide => (flag_collide /\ ~flag_inject_fault)
    /\ pc = "done" => (passes = 2 <=> (flag_collide /\ ~flag_inject_fault))
    /\ ~FlagBit(req.exec_flags, ExecThreaded) => (~flag_collide /\ passes <= 1)

\* execute_one returns after its second pass.
C6_Witness == pc = "done" /\ passes = 2 /\ collide /\ Len(hist) >= 2

(***************************************************************************)
(* C8: collide and fault injection                                         *)
(***************************************************************************)
\* C8: the fatal exit of execute_call for a fault armed under the collide
\* flag is never taken, the collide flag is never set together with
\* flag_inject_fault, and no call runs with a fault armed under it.
C8_NoFaultUnderCollide ==
    /\ fatal # "both collide and fault injection are enabled"
    /\ ~(collide /\ flag_inject_fault)
    /\ \A i \in in_call : ~(FaultArmed(threads[i]) /\ collide)

\* A request with the collide and inject_fault bits has run to the end, and
\* the fault was injected into its call.
C8_Witness ==
    /\ pc = "done" /\ flag_collide /\ flag_inject_fault
    /\ \E i \in DOMAIN threads :
          threads[i].fault_injected /\ threads[i].call_index = flag_fault_call

(***************************************************************************)
(* C10: the states of a slot                                               *)
(***************************************************************************)
\* The state of a slot record by (ready, done, handled).
SlotState(t) ==
    IF t.ready /\ ~t.done /\ ~t.handled THEN "Armed"
    ELSE IF ~t.ready /\ ~t.done /\ ~t.handled THEN "Running"
    ELSE IF ~t.ready /\ t.done /\ ~t.handled THEN "Done"
    ELSE IF ~t.ready /\ t.done /\ t.handled THEN "Handled"
    ELSE "Other"

\* The state of slot i in pool ts; "None" before it is created.
StateIn(ts, i) == IF i \in DOMAIN ts THEN SlotState(ts[i]) ELSE "None"

\* The last events of the new history are the completion of slot i and then
\* its schedule: schedule_call handled the slot's completion and armed it.
HandledThenArmed(i) ==
    /\ Len(hist') = Len(hist) + 2
    /\ hist'[Len(hist) + 1].ev = "done" /\ hist'[Len(hist) + 1].slot = i
    /\ hist'[Len(hist) + 2].ev = "sched" /\ hist'[Len(hist) + 2].slot = i

PoolExhausted ==
    \A i \in Slots : i \in DOMAIN threads /\ threads[i].created /\ ~threads[i].done

\* C9 (under SpecPool): a call instruction read when every slot is created
\* and none is done ends in the fatal exit "out of threads"; that exit is
\* taken from such a pool only, and leaves every slot, running, the results,
\* the output and the history as they were; no other fatal exit is taken.
C9_OutOfThreads ==
    [][/\ (CallAtCursor /\ call_index' = call_index + 1 /\ PoolExhausted) =>
             fatal' = "out of threads"
       /\ fatal' # "" => fatal' = "out of threads"
       /\ (fatal = "" /\ fatal' = "out of threads") =>
             /\ PoolExhausted
             /\ threads' = threads
             /\ running' = running /\ running = kMaxThreads
             /\ results' = results /\ output_data' = output_data /\ hist' = hist
             /\ Len(Events("sched")) = kMaxThreads
      ]_vars

\* The executor has exited with "out of threads" in threaded mode, sixteen
\* calls scheduled and none completed.
C9_Witness ==
    /\ fatal = "out of threads" /\ flag_threaded
    /\ PoolExhausted /\ running = kMaxThreads
    /\ Len(Events("sched")) = kMaxThreads /\ Events("done") = <<>>
    /\ call_index = kMaxThreads + 1

(***************************************************************************)
(* C7: dedup answers true the second time                                  *)
(***************************************************************************)
\* The i-th probe slot of a signal; the table size divides 2^16.
SlotOf(sig, i) == (sig[2] + i) % dedup_table_size
ProbeSlots(sig) == {SlotOf(sig, i) : i \in 0..(DedupProbes - 1)}

\* Presentation m found every probe slot of its signal taken by other
\* signals, and so overwrote its first probe slot.
Overwrote(m) ==
    /\ ~hist[m].ret
    /\ \A q \in ProbeSlots(hist[m].sig) : q \in DOMAIN hist[m].before

\* C7 (under SpecDedup): of two presentations of a non-zero signal, the
\* second is answered true unless, in between, a presentation of another
\* signal overwrote one of the signal's probe slots; so the second of two
\* presentations in a row is always answered true.
C7_SecondPresentationKnown ==
    \A j, k \in DOMAIN hist :
       (/\ j < k
        /\ hist[j].sig = hist[k].sig /\ hist[j].sig # U32(0)
        /\ \A m \in (j + 1)..(k - 1) :
              ~(/\ hist[m].sig # hist[j].sig
                /\ Overwrote(m)
                /\ SlotOf(hist[m].sig, 0) \in ProbeSlots(hist[j].sig)))
       => hist[k].ret

\* A signal went in by overwriting, another signal was presented, and the
\* first signal was then answered true; and a signal presented twice with an
\* overwrite of its slot in between was answered false.
C7_Witness ==
    /\ Len(hist) = 4
    /\ hist[1].sig = hist[2].sig /\ Overwrote(1) /\ hist[2].ret
    /\ hist[3].sig # hist[1].sig /\ Overwrote(3)
    /\ SlotOf(hist[3].sig, 0) \in ProbeSlots(hist[1].sig)
    /\ hist[4].sig = hist[1].sig /\ ~hist[4].ret

(***************************************************************************)
(* C11: the slot schedule_call chooses                                     *)
(***************************************************************************)
\* The slots the scan of schedule_call can stop at: not created yet (the
\* scan creates them, with done set) or with the done event set.
FreeSlots == {i \in Slots : ~ThreadAt(threads, i).created \/ ThreadAt(threads, i).done}

\* The least slot of a non-empty set.
Lowest(S) == CHOOSE i \in S : \A j \in S : i <= j

\* The fields of a slot that schedule_call assigns.
CallFields(t) ==
    <<t.copyout_pos, t.copyout_index, t.call_index, t.call_num, t.num_args, t.args>>

\* The main thread reads a call instruction and schedule_call arms a slot.
ScheduleStep == CallAtCursor /\ call_index' = call_index + 1 /\ fatal' = ""

\* C11: a call that is scheduled goes to the lowest slot that is not
\* created or has done set; that slot is created if it was not, no slot
\* after it is created or touched and no slot before it is touched; if the
\* slot's completion was not handled, it is handled first, within the same
\* schedule_call; and no step changes the call fields of a slot whose done
\* event is clear.
C11_LowestDoneSlot ==
    [][/\ ScheduleStep =>
             /\ FreeSlots # {}
             /\ LET i == Lowest(FreeSlots)
                     unhandled == i \in DOMAIN threads /\ ~threads[i].handled
                 IN  /\ th' = i
                     /\ hist'[Len(hist')] = [ev |-> "sched", slot |-> i,
                                             call_index |-> call_index,
                                             collide |-> collide]
                     /\ DOMAIN threads' = DOMAIN threads \cup {i}
                     /\ \A j \in DOMAIN threads \ {i} : threads'[j] = threads[j]
                     /\ \A j \in 0..(i - 1) : j \in DOMAIN threads /\ ~threads[j].done
                     /\ threads'[i].ready /\ ~threads'[i].done /\ ~threads'[i].handled
                     /\ threads'[i].call_index = call_index
                     /\ IF unhandled
                        THEN /\ Len(hist') = Len(hist) + 2
                             /\ hist'[Len(hist) + 1] =
                                   [ev |-> "done", slot |-> i,
                                    call_index |-> threads[i].call_index,
                                    collide |-> collide]
                             /\ running' = running
                        ELSE /\ Len(hist') = Len(hist) + 1
                             /\ running' = running + 1
       /\ \A j \in DOMAIN threads :
             ~threads[j].done => CallFields(threads'[j]) = CallFields(threads[j])
       /\ fatal' # "bad thread state in schedule"
      ]_vars

\* Slot 0 is in flight and the next call was scheduled on slot 1, created
\* for it; slot 2 is not created.
C11_Witness ==
    /\ DOMAIN threads = {0, 1} /\ th = 1
    /\ ~threads[0].done /\ ~threads[0].handled
    /\ threads[1].ready /\ ~threads[1].done
    /\ threads[1].call_index = threads[0].call_index + 1

(***************************************************************************)
(* C12: a call that outlasts the timed wait                                *)
(***************************************************************************)
\* The positions of the history events of kind ev on slot i.
SlotEvents(ev, i) == {k \in DOMAIN hist : hist[k].ev = ev /\ hist[k].slot = i}

\* The schedule and completion events of every slot alternate, a schedule
\* first: no call is completed twice.
Alternating ==
    \A i \in DOMAIN threads :
       /\ \A k \in SlotEvents("done", i) :
             \E j \in SlotEvents("sched", i) :
                /\ j < k /\ hist[j].call_index = hist[k].call_index
                /\ \A m \in (j + 1)..(k - 1) : hist[m].slot # i
       /\ \A j, k \in SlotEvents("sched", i) :
             j < k => \E m \in SlotEvents("done", i) : j < m /\ m < k

\* C12: the timed wait on a slot whose done event is clear changes nothing
\* and execute_one goes on; a slot that is not handled is counted in running
\* and only the return of its own call sets its done event; a completion is
\* handled only for a slot whose done event was set and whose completion was
\* not handled, and once per call.
C12_TimedOutCallHandledOnce ==
    /\ [](running = Cardinality(Unhandled) /\ Alternating)
    /\ [][/\ (pc = "wait" /\ pc' = "sweep" /\ ~threads[th].done) =>
                /\ UNCHANGED <<threads, running, results, output_data, hist, in_call,
                               input_pos, fatal>>
          /\ \A k \in (Len(hist) + 1)..Len(hist') :
                hist'[k].ev = "done" =>
                   LET i == hist'[k].slot IN
                   /\ i \in DOMAIN threads
                   /\ threads[i].done /\ ~threads[i].handled /\ ~threads[i].ready
                   /\ hist'[k].call_index = threads[i].call_index
          /\ \A i \in DOMAIN threads :
                /\ (~threads[i].handled /\ threads'[i].handled) =>
                      \E k \in (Len(hist) + 1)..Len(hist') :
                         hist'[k].ev = "done" /\ hist'[k].slot = i
                /\ (~threads[i].done /\ threads'[i].done) =>
                      (pc = "syscall" /\ i = th) \/ (i \in in_call /\ i \notin in_call')
          /\ fatal' # "bad thread state in completion"
         ]_vars

\* In the first pass of a threaded execute a call outlasted its timed wait:
\* another call was scheduled before its completion was handled, and a call
\* is still in flight when execute_one returns.
C12_Witness ==
    /\ pc = "done" /\ flag_threaded /\ ~collide /\ running > 0
    /\ \E j, m, k \in DOMAIN hist :
          /\ j < m /\ m < k
          /\ hist[j].ev = "sched" /\ hist[k].ev = "done" /\ hist[k].slot = hist[j].slot
          /\ hist[k].call_index = hist[j].call_index
          /\ hist[m].ev = "sched" /\ hist[m].slot # hist[j].slot

(***************************************************************************)
(* C13: one writer per slot                                                *)
(***************************************************************************)
\* The fields of a slot that execute_call writes.
ResultFields(t) == <<t.res, t.reserrno, t.cover_size, t.fault_injected, t.cover_data>>

\* The call of slot i begins (its executor has seen ready) and ends (done is
\* set) in this step.
CallBegins(i) == i \notin in_call /\ i \in in_call'
CallEnds(i) == i \in in_call /\ i \notin in_call'

\* handle_completion runs for slot i in this step.
Handles(i) ==
    \E k \in (Len(hist) + 1)..Len(hist') : hist'[k].ev = "done" /\ hist'[k].slot = i

\* A slot whose call is being executed is out of the main thread's hands:
\* ready, done and handled are clear.
OwnedWhileInCall ==
    \A i \in in_call :
       i \in DOMAIN threads /\ ~threads[i].ready /\ ~threads[i].done /\ ~threads[i].handled

MainFrom(at) == pc = at /\ pc' # pc /\ fatal' = ""

\* C14: after scheduling a call of odd call_index in the collide pass,
\* execute_one reads the next instruction at once; after any other call of a
\* threaded execute it does the timed wait on the call's slot (the
\* completion is handled exactly if done is set) and then the sweep (every
\* slot with done set and not handled is handled), in the collide pass as in
\* the first pass.
C14_CollideSkipsOddCalls ==
    [][/\ ScheduleStep =>
             pc' = IF collide /\ call_index % 2 = 1 THEN "read"
                   ELSE IF flag_threaded THEN "wait" ELSE "exec"
       /\ MainFrom("wait") =>
             /\ pc' = "sweep" /\ input_pos' = input_pos
             /\ \A i \in DOMAIN threads : Handles(i) <=> (i = th /\ threads[i].done)
       /\ MainFrom("sweep") =>
             /\ pc' = "read" /\ input_pos' = input_pos
             /\ \A i \in DOMAIN threads :
                   Handles(i) <=> (threads[i].done /\ ~threads[i].handled)
      ]_vars

\* The collide pass scheduled call 1 right after the timed wait and the
\* handled completion of call 0, and is reading the next instruction with
\* nothing handled since.
C14_Witness ==
    /\ collide /\ pc = "read" /\ call_index = 2 /\ Len(hist) >= 3
    /\ LET n == Len(hist) IN
       /\ hist[n] = [ev |-> "sched", slot |-> th, call_index |-> 1, collide |-> TRUE]
       /\ hist[n - 1].ev = "done" /\ hist[n - 1].collide /\ hist[n - 1].call_index = 0
       /\ hist[n - 2].ev = "sched" /\ hist[n - 2].collide /\ hist[n - 2].call_index = 0

(***************************************************************************)
(* C15: the result of a call in the result table                           *)
(***************************************************************************)
\* The slots whose completion is handled in this step.
HandledSlots == {i \in DOMAIN threads : Handles(i)}

RECURSIVE CopyoutRun(_)
\* The COPYOUT records (index, addr, size) that follow one another from
\* word pos of the program on.
CopyoutRun(pos) ==
    IF pos + 3 < Len(input_data) /\ input_data[pos + 1] = instr_copyout
    THEN <<[index |-> input_data[pos + 2], addr |-> input_data[pos + 3],
            size |-> input_data[pos + 4]]>> \o CopyoutRun(pos + 4)
    ELSE <<>>

\* The slot's call returned a value and has a place in the result table.
Stores(t) == t.res # MinusOne /\ t.copyout_index # no_copyout

LastFor(run, k) == \A m \in (k + 1)..Len(run) : run[m].index # run[k].index

\* Every COPYOUT record of the run is recorded in the new result table with
\* the value read from guest memory, a later record of the same index
\* overriding an earlier one.
RunRecorded(run) ==
    \A k \in DOMAIN run :
       /\ ToNat(run[k].index) \in DOMAIN results'
       /\ LastFor(run, k) =>
             results'[ToNat(run[k].index)] = copyout(mem, run[k].addr, run[k].size).val

\* The completion was handled by schedule_call, which armed the slot again.
Rearmed == hist'[Len(hist')].ev = "sched"

\* C16 as stated: whenever the completion of one call is handled, every
\* COPYOUT record of the run at the slot's copyout_pos is read and recorded.
C16_CopyoutsOfEveryCompletion ==
    [][\A i \in DOMAIN threads :
          (HandledSlots = {i} /\ fatal' = "") =>
             RunRecorded(CopyoutRun(threads[i].copyout_pos))
      ]_vars

\* C16 amended: the records are read and recorded when the completion of a
\* call that returned a value (res # -1) is handled, up to the first word
\* that is no COPYOUT opcode, which the slot's cursor consumes; the other
\* entries of the table stay as they were; when the call failed, no record
\* is read and the cursor stays (the cursor is set anew when schedule_call
\* handled the completion and armed the slot).
C16_CopyoutsOfSuccessfulCall ==
    [][\A i \in DOMAIN threads :
          LET t == threads[i]
              run == CopyoutRun(t.copyout_pos)
              written == {ToNat(run[k].index) : k \in DOMAIN run}
                            \cup (IF Stores(t) THEN {ToNat(t.copyout_index)} ELSE {})
          IN  (HandledSlots = {i} /\ fatal' = "") =>
                 IF t.res # MinusOne
                 THEN /\ RunRecorded(run)
                      /\ DOMAIN results' = DOMAIN results \cup written
                      /\ \A x \in DOMAIN results \ written : results'[x] = results[x]
                      /\ Rearmed \/ threads'[i].copyout_pos = t.copyout_pos + 4 * Len(run) + 1
                 ELSE /\ results' = results
                      /\ Rearmed \/ threads'[i].copyout_pos = t.copyout_pos
      ]_vars

\* The call stored 0xDEADBEEF at P and was followed by COPYOUT(0, P, 4) and a
\* COPYOUT of an address that faults: results[0] is 0xDEADBEEF and
\* results[1] is the default value.
C16_Witness ==
    /\ 0 \in DOMAIN results /\ results[0] = Widen(StoreWord)
    /\ 1 \in DOMAIN results /\ results[1] = default_value
    /\ \E i \in DOMAIN threads :
          /\ threads[i].handled /\ threads[i].call_num = SysStore
          /\ threads[i].res # MinusOne

(***************************************************************************)
(* C17: the cursor of execute_one                                          *)
(***************************************************************************)
\* C17: a step that handles completions from the timed wait, the sweep or
\* the non-threaded path leaves the cursor of execute_one where it was; a
\* call step leaves it right after the call's arguments, which is also the
\* slot's copyout_pos, whether or not schedule_call handled a completion;
\* and execute_one passes over a COPYOUT record by its four words, changing
\* neither the result table nor a slot.
C17_MainCursorUntouched ==
    [][/\ (HandledSlots # {} /\ pc # "read") =>
             /\ pc \in {"wait", "sweep", "complete"}
             /\ input_pos' = input_pos
       /\ ScheduleStep =>
             /\ input_pos' = input_pos + 3 + 5 * ToNat(read_input(input_pos + 2))
             /\ threads'[th'].copyout_pos = input_pos'
       /\ (pc = "read" /\ Alive /\ read_input(input_pos) = instr_copyout
             /\ input_pos' # input_pos) =>
             /\ input_pos' = input_pos + 4 /\ pc' = "read"
             /\ UNCHANGED <<results, threads, hist, output_data, running>>
      ]_vars

\* The timed wait has handled the completion of a call whose COPYOUT
\* records were read through the slot's cursor, and the cursor of
\* execute_one is still at the first of them.
C17_Witness ==
    /\ pc = "sweep" /\ hist # <<>>
    /\ hist[Len(hist)] = [ev |-> "done", slot |-> th,
                          call_index |-> threads[th].call_index, collide |-> collide]
    /\ read_input(input_pos) = instr_copyout
    /\ threads[th].copyout_pos > input_pos + 4
    /\ 1 \in DOMAIN results

(***************************************************************************)
(* C18: non-threaded mode                                                  *)
(***************************************************************************)
\* The records recs are those of the calls 0 .. n-1, in this order.
RecordsOfCalls(recs, n) ==
    Len(recs) = n /\ \A k \in DOMAIN recs : recs[k].call_index = k - 1

\* C18: in a non-threaded execute only slot 0 exists and every call is
\* scheduled on it; the history is schedule 0, completion 0, schedule 1,
\* completion 1, ...; whenever execute_one is between instructions or has
\* returned, running is 0 and the output holds the records of the calls read
\* so far, in program order; while a call is executed running is 1; the
\* fatal exit for a non-main thread is not taken.
C18_NonThreadedInOrder ==
    (~flag_threaded /\ pc # "recv") =>
       /\ DOMAIN threads \subseteq {0} /\ th = 0 /\ in_call \subseteq {0}
       /\ ~collide /\ passes <= 1
       /\ fatal # "using non-main thread in non-thread mode"
       /\ \A k \in DOMAIN hist :
             /\ hist[k].slot = 0
             /\ hist[k].call_index = (k - 1) \div 2
             /\ hist[k].ev = IF k % 2 = 1 THEN "sched" ELSE "done"
       /\ (Alive /\ pc \in {"read", "done"}) =>
             /\ running = 0 /\ in_call = {}
             /\ Len(hist) = 2 * call_index
             /\ RecordsOfCalls(Records, call_index)
             /\ completed = call_index
       /\ (Alive /\ pc \in {"exec", "syscall", "complete"}) =>
             /\ running = 1
             /\ Len(hist) = 2 * call_index - 1
             /\ RecordsOfCalls(Records, call_index - 1)
             /\ (pc = "syscall") = (in_call = {0})

\* A non-threaded execute of a program of three calls has returned with
\* three records.
C18_Witness ==
    /\ ~flag_threaded /\ pc = "done" /\ Alive
    /\ input_data = ValueCall(U64(0), U64(10)) \o ValueCall(U64(0), U64(10))
                        \o ValueCall(U64(0), U64(10)) \o Eof
    /\ Len(Records) = 3 /\ running = 0
    /\ flag_collect_cover

(***************************************************************************)
(* C19: what one dedup does to the table                                   *)
(***************************************************************************)
\* The table after presentation k.
TableAfterCall(k) == IF k < Len(hist) THEN hist[k + 1].before ELSE dedup_table

\* The slots in which the tables b and a differ.
Changed(b, a) == {q \in DOMAIN a \cup DOMAIN b : TableAt(a, q) # TableAt(b, q)}

\* The probes of sig that stop the loop in the table b: the slot equals sig
\* or holds zero.
Stops(b, sig) ==
    {i \in 0..(DedupProbes - 1) : TableAt(b, SlotOf(sig, i)) \in {sig, U32(0)}}

\* The lossy store: sig went into its first probe slot and nowhere else.
OverwroteAnchor(b, a, sig) ==
    /\ Changed(b, a) \subseteq {SlotOf(sig, 0)}
    /\ TableAt(a, SlotOf(sig, 0)) = sig

\* The probe slots of sig hold four distinct values that probe the same
\* cluster as sig and are not sig.
ClusterFull(b, sig) ==
    /\ \A q \in ProbeSlots(sig) :
          /\ q \in DOMAIN b /\ b[q] # sig
          /\ SlotOf(b[q], 0) = SlotOf(sig, 0)
    /\ Cardinality({b[q] : q \in ProbeSlots(sig) \cap DOMAIN b}) = DedupProbes

\* Presentations k .. k+4 are of five distinct signals with the same first
\* probe slot, given to a table whose four slots of that cluster were zero.
FiveInCluster(k) ==
    /\ k + DedupProbes <= Len(hist)
    /\ \A q \in ProbeSlots(hist[k].sig) : q \notin DOMAIN hist[k].before
    /\ \A m \in k..(k + DedupProbes) : SlotOf(hist[m].sig, 0) = SlotOf(hist[k].sig, 0)
    /\ Cardinality({hist[m].sig : m \in k..(k + DedupProbes)}) = DedupProbes + 1

\* The fifth of five signals of a cluster overwrote the first probe slot and
\* was answered false; the signal it displaced is new when presented next.
FifthOverwrites(k, b, a, sig) ==
    /\ ClusterFull(b, sig) =>
          /\ ~hist[k].ret /\ OverwroteAnchor(b, a, sig)
          /\ (k < Len(hist) /\ hist[k + 1].sig = b[SlotOf(sig, 0)]) => ~hist[k + 1].ret
    /\ (k > DedupProbes /\ FiveInCluster(k - DedupProbes)) =>
          /\ ~hist[k].ret /\ OverwroteAnchor(b, a, sig)

\* One presentation as the four probes taken together: true if a probe slot
\* equals sig; otherwise sig stored in a zero probe slot and false; with
\* all four slots taken by other values, the lossy store and false.
AsSet(k, b, a, sig) ==
    /\ (\E q \in ProbeSlots(sig) : TableAt(b, q) = sig) => (hist[k].ret /\ a = b)
    /\ (/\ \A q \in ProbeSlots(sig) : TableAt(b, q) # sig
        /\ \E q \in ProbeSlots(sig) : TableAt(b, q) = U32(0)) =>
          /\ ~hist[k].ret
          /\ \E q \in ProbeSlots(sig) :
                TableAt(b, q) = U32(0) /\ Changed(b, a) = {q} /\ TableAt(a, q) = sig
    /\ (\A q \in ProbeSlots(sig) : TableAt(b, q) \notin {sig, U32(0)}) =>
          (~hist[k].ret /\ OverwroteAnchor(b, a, sig))
    /\ Cardinality(Changed(b, a)) <= 1

\* One presentation as the probes in order: at the first probe slot that
\* equals sig or holds zero, true if it equals sig, otherwise sig stored
\* there and false; with no such slot, the lossy store and false.
InProbeOrder(k, b, a, sig, stops) ==
    /\ stops # {} =>
          LET q == SlotOf(sig, Lowest(stops)) IN
          IF TableAt(b, q) = sig
          THEN hist[k].ret /\ a = b
          ELSE ~hist[k].ret /\ Changed(b, a) = {q} /\ TableAt(a, q) = sig
    /\ stops = {} => (~hist[k].ret /\ OverwroteAnchor(b, a, sig))
    /\ Cardinality(Changed(b, a)) <= 1

\* C19 as stated (under SpecDedup): every presentation answers true if any
\* of its four probe slots equals the signal, otherwise stores the signal in
\* a zero probe slot and answers false, and with all four slots taken
\* overwrites the first probe slot and answers false; it changes at most one
\* slot; the fifth of five distinct signals of a cluster overwrites the first
\* probe slot, is answered false, and the displaced signal is new again.
C19_TrueIfAnyProbeEquals ==
    \A k \in DOMAIN hist :
       /\ AsSet(k, hist[k].before, TableAfterCall(k), hist[k].sig)
       /\ FifthOverwrites(k, hist[k].before, TableAfterCall(k), hist[k].sig)

\* C19 amended (under SpecDedup): every presentation goes through its four
\* probe slots in order and stops at the first that equals the signal or
\* holds zero, answering true at a slot equal to the signal and otherwise
\* storing the signal there and answering false; with all four slots taken
\* by other values it overwrites the first probe slot and answers false; it
\* changes at most one slot; the fifth of five distinct non-zero signals of
\* a cluster overwrites the first probe slot, is answered false, and the
\* displaced signal is new again.
C19_TrueAtFirstStop ==
    \A k \in DOMAIN hist :
       /\ InProbeOrder(k, hist[k].before, TableAfterCall(k), hist[k].sig,
                       Stops(hist[k].before, hist[k].sig))
       /\ (\A m \in DOMAIN hist : hist[m].sig # U32(0)) =>
             FifthOverwrites(k, hist[k].before, TableAfterCall(k), hist[k].sig)

\* The fifth signal of a cluster overwrote the first probe slot and was
\* answered false, the signal it displaced was presented next and answered
\* false, and a signal whose probes wrap around the table was stored.
C19_Witness ==
    /\ Len(hist) = 3
    /\ ClusterFull(hist[1].before, hist[1].sig) /\ ~hist[1].ret
    /\ hist[2].sig = hist[1].before[SlotOf(hist[1].sig, 0)] /\ ~hist[2].ret
    /\ hist[3].sig = <<Limb - 1, Limb - 1>> /\ ~hist[3].ret
    /\ dedup_table_size - 1 \in DOMAIN dedup_table

(***************************************************************************)
(* C20: the signals of a record                                            *)
(***************************************************************************)
\* The i-th edge of a coverage trace: the low 32 bits of the PC, xor the
\* hash of the low 32 bits of the PC before it (zero for the first).
EdgeAt(trace, i) ==
    U32Xor(Low32(trace[i]), IF i = 1 THEN U32(0) ELSE hash(Low32(trace[i - 1])))
EdgesOf(trace) == [i \in 1..Len(trace) |-> EdgeAt(trace, i)]
\* The edges of the traces the coverage facility reports, computed once.
TraceEdges == [t \in {<<PcA, PcB>>, <<PcA>>, <<PcC, PcA, PcC>>} |-> EdgesOf(t)]
Edges(trace) == IF trace \in DOMAIN TraceEdges THEN TraceEdges[trace] ELSE EdgesOf(trace)

RECURSIVE NewOf(_, _)
\* The table after the signals sigs were presented to the table tab, and
\* those of them that dedup answered false for, in order.
NewOf(tab, sigs) ==
    IF sigs = <<>> THEN [table |-> tab, kept |-> <<>>]
    ELSE LET d == dedup(tab, Head(sigs))
             r == NewOf(d.table, Tail(sigs))
         IN  [r EXCEPT !.kept = (IF d.ret THEN <<>> ELSE <<Head(sigs)>>) \o @]

\* The signal words of record k of recs, read back from the output.
SignalsOf(recs, k) ==
    LET start == IF k = 1 THEN 1 ELSE recs[k - 1].end
    IN  SubSeq(output_data, start + RecordWords + 1, start + RecordWords + recs[k].nsig)

\* The coverage trace of the call a record is for.
TraceOf(r) == CoverTrace(r.call_num, r.reserrno = 0)

RECURSIVE SignalsFrom(_, _, _)
\* From record k on, every record holds the edges of its call's trace that
\* were new to the table tab left by the records before it, and the last
\* record leaves dedup_table.
SignalsFrom(recs, k, tab) ==
    IF k > Len(recs) THEN tab = dedup_table
    ELSE LET new == NewOf(tab, Edges(TraceOf(recs[k])))
         IN  /\ SignalsOf(recs, k) = new.kept
             /\ recs[k].nsig = Len(new.kept)
             /\ SignalsFrom(recs, k + 1, new.table)

\* The signal sig is in one of its probe slots.
TableHolds(sig) == \E q \in ProbeSlots(sig) : TableAt(dedup_table, q) = sig

\* No signal still in the table is in two records.
NoSignalTwice(recs) ==
    \A j, k \in DOMAIN recs :
       j < k => \A a \in DOMAIN SignalsOf(recs, j) : \A b \in DOMAIN SignalsOf(recs, k) :
                   (SignalsOf(recs, j)[a] = SignalsOf(recs, k)[b])
                      => ~TableHolds(SignalsOf(recs, j)[a])

\* C20: when comparisons are not collected, the records in the output (one
\* for each completion handled with the collide flag clear) hold, in order,
\* the signals pc XOR prev of the call's coverage trace, with prev zero at
\* the start of the call and hash(pc) afterwards, that dedup answered false
\* for, starting from the empty table and going on from record to record;
\* nsig is the number of signals written; and no signal that is still in the
\* table was written twice.
C20_SignalsOfRecords ==
    ~flag_collect_comps =>
       /\ SignalsFrom(Records, 1, <<>>)
       /\ NoSignalTwice(Records)
       /\ Len(Records) = Len(Emitting)

\* Two calls with the same trace of two PCs completed: the first record
\* holds both edges, the second none; and a call with the trace PcC, PcA,
\* PcC has a record with three signals.
C20_Witness ==
    /\ ~flag_collect_comps /\ pc = "done" /\ Alive
    /\ \E j, k \in DOMAIN Records :
          /\ j < k
          /\ Records[j].call_num = Records[k].call_num
          /\ Records[j].nsig = 2 /\ Records[k].nsig = 0
          /\ SignalsOf(Records, j) = <<Low32(PcA), U32Xor(Low32(PcB), hash(Low32(PcA)))>>

(***************************************************************************)
(* C21: running counts the slots whose completion is not handled           *)
(***************************************************************************)
\* The number of events of kind ev that the step adds to the history.
Added(ev) == Cardinality({k \in (Len(hist) + 1)..Len(hist') : hist'[k].ev = ev})

\* The created slots whose handled flag is false, after the step.
UnhandledAfter == {i \in DOMAIN threads' : threads'[i].created /\ ~threads'[i].handled}

\* C21: in every state running is the number of created slots whose handled
\* flag is false, and lies in 0 .. kMaxThreads; every step changes both by
\* the number of calls it scheduled less the number of completions it
\* handled; a step that reads a call and goes on schedules exactly one; a
\* step that neither schedules nor handles leaves running and every handled
\* flag of a created slot as they were.
C21_RunningCountsUnhandled ==
    /\ [](/\ running = Cardinality({i \in DOMAIN threads :
                                       threads[i].created /\ ~threads[i].handled})
          /\ 0 <= running /\ running <= kMaxThreads)
    /\ [][/\ Len(hist') >= Len(hist) /\ SubSeq(hist', 1, Len(hist)) = hist
          /\ running' = running + Added("sched") - Added("done")
          /\ Cardinality(UnhandledAfter) =
                Cardinality(Unhandled) + Added("sched") - Added("done")
          /\ ScheduleStep => Added("sched") = 1
          /\ Added("sched") <= 1
          /\ (pc # "read") => Added("sched") = 0
          /\ (pc \notin {"read", "wait", "sweep", "complete"}) => Added("done") = 0
          /\ (Added("sched") = 0 /\ Added("done") = 0) =>
                /\ running' = running
                /\ \A i \in DOMAIN threads :
                      threads[i].created => threads'[i].handled = threads[i].handled
                /\ \A i \in DOMAIN threads' \ DOMAIN threads : threads'[i].handled
         ]_vars

\* Two calls are scheduled and not handled while a third was handled, and
\* the main thread is about to read the next instruction.
C21_Witness ==
    /\ pc = "read" /\ Alive /\ flag_threaded
    /\ running = 2 /\ Cardinality(Unhandled) = 2
    /\ Cardinality(DOMAIN threads) = 3
    /\ \E k \in DOMAIN hist : hist[k].ev = "done"

(***************************************************************************)
(* C22: the thread state checks never fire                                 *)
(***************************************************************************)
\* The fatal exits of the checks in handle_completion, schedule_call and
\* execute_one.
StateCheckExits ==
    {"bad thread state in completion", "bad thread state in schedule", "running < 0"}

\* Event k of the history after the step is new, of kind ev.
NewEvent(k, ev) == k > Len(hist) /\ k <= Len(hist') /\ hist'[k].ev = ev

\* Slot i was fit for handle_completion before the step.
Completable(i) ==
    /\ i \in DOMAIN threads /\ threads[i].created
    /\ threads[i].done /\ ~threads[i].ready /\ ~threads[i].handled

\* Slot i was fit for arming when new event k armed it: created by the scan
\* of this step, or done set and ready clear with its completion handled
\* before the step or by the scan just before.
Armable(i, k) ==
    \/ i \notin DOMAIN threads
    \/ /\ threads[i].created /\ threads[i].done /\ ~threads[i].ready
       /\ \/ threads[i].handled
          \/ NewEvent(k - 1, "done") /\ hist'[k - 1].slot = i

\* C22: no execute, threaded or not, with or without a collide pass, exits
\* by the thread state checks of handle_completion and schedule_call or by
\* the check of running; every completion handled by a step, in the timed
\* wait, the sweep, the scan or the non-threaded path, is of a slot that had
\* done set, ready clear and handled false, and every call scheduled goes to
\* a slot that had done set, ready clear and handled true, and leaves it
\* with done clear, ready set and handled false.
C22_StateChecksNeverFire ==
    /\ [](fatal \notin StateCheckExits /\ running >= 0)
    /\ [][\A k \in (Len(hist) + 1)..Len(hist') :
            /\ hist'[k].ev = "done" =>
                  /\ Completable(hist'[k].slot)
                  /\ pc \in {"read", "wait", "sweep", "complete"}
                  /\ \A m \in (Len(hist) + 1)..(k - 1) :
                        ~(hist'[m].ev = "done" /\ hist'[m].slot = hist'[k].slot)
            /\ hist'[k].ev = "sched" =>
                  /\ Armable(hist'[k].slot, k)
                  /\ k = Len(hist') /\ pc = "read"
                  /\ LET t == threads'[hist'[k].slot]
                     IN  t.created /\ ~t.done /\ t.ready /\ ~t.handled
         ]_vars

\* In the collide pass, after a call of that pass was scheduled, the
\* completion of a call of the first pass was handled on a slot other than
\* slot 0, and the execute went on.
C22_Witness ==
    /\ collide /\ Alive /\ pc = "read" /\ hist # <<>>
    /\ LET k == Len(hist) IN
       /\ hist[k].ev = "done" /\ hist[k].collide
       /\ ~ScheduleOf(k).collide
       /\ hist[k].slot > 0
       /\ \E j \in 1..(k - 1) : hist[j].ev = "sched" /\ hist[j].collide

(***************************************************************************)
(* C23: execute_one returns whatever the workers do                        *)
(***************************************************************************)
\* C23 (under SpecThreaded): a threaded execute_one that has started
\* returns or exits fatally, whether or not the calls it scheduled ever set
\* done; it makes at most two passes, a step of the main thread that reads
\* an instruction and goes on moves the cursor forward, never past the end
\* of the program, the timed wait and the sweep leave the cursor alone and
\* go on to the sweep and to the next instruction, and a step of a worker
\* changes neither pc, the cursor nor fatal.
C23_MainThreadReturns ==
    /\ (pc = "start" /\ flag_threaded) ~> (pc = "done" \/ fatal # "")
    /\ [](passes <= 2)
    /\ [][/\ (pc = "read" /\ in_call' = in_call /\ fatal' = "") => input_pos' > input_pos
          /\ (pc \in {"wait", "sweep"}) => input_pos' = input_pos
          /\ input_pos' <= Len(input_data)
          /\ (pc = "wait" /\ pc' # "wait") => pc' = "sweep"
          /\ (pc = "sweep" /\ pc' # "sweep") => pc' = "read"
          /\ (pc = "start" /\ pc' # "start") => (input_pos' = 0 /\ passes' = passes + 1)
          /\ (in_call' # in_call) => (pc' = pc /\ input_pos' = input_pos /\ fatal' = fatal)
         ]_vars

\* A threaded execute of MaxLiveCalls calls returned although no worker
\* ever started: every slot is still armed and no completion was handled.
C23_Witness ==
    /\ pc = "done" /\ Alive /\ flag_threaded
    /\ running = MaxLiveCalls /\ call_index = MaxLiveCalls
    /\ \A i \in DOMAIN threads : threads[i].ready /\ ~threads[i].done
    /\ in_call = {}
    /\ \A k \in DOMAIN hist : hist[k].ev = "sched"
====
